---------------------------- MODULE Spec2Model ----------------------------
(***************************************************************************)
(* Model of the gesture pipeline of fappy-bird:                            *)
(*   - MotionDetector (src/src/motionDetection.js)                         *)
(*   - HandTracker    (src/src/handTracking.js)                            *)
(*                                                                         *)
(* Numbers.  The JavaScript code computes on doubles.  Positions and       *)
(* velocities are held here as fixed-point integers in hundredths of a     *)
(* pixel, times in hundredths of a millisecond; a division rounds to the   *)
(* nearest hundredth (RoundDiv).  16.67 ms is therefore 1667, 1 ms is 100. *)
(***************************************************************************)
EXTENDS Integers, Sequences, FiniteSets, TLC

VARIABLES
    \* ---- MotionDetector fields (constructor, motionDetection.js:4-29)
    positions,            \* sequence of [y, time], smoothed samples
    smoothedY,            \* Null or Some(value)
    cooldownTimer,
    state,                \* "idle" | "moving_up" | "cooldown"
    upwardFrames,
    peakVelocity,
    velocityHistory,
    currentVelocity,
    rawY,
    jumpThreshold,        \* configuration fields (plain public fields)
    cooldownFrames,
    requiredUpwardFrames,
    \* ---- environment of the detector
    now,                  \* performance.now()
    \* ---- observation of the calls made so far
    lastOp,               \* the operation executed last
    ret,                  \* what the last update returned
    calls,                \* position-carrying update calls made so far
    hist,                 \* the position-carrying updates since construction/reset
    velocity,             \* what getVelocity returned last since construction/reset
    \* ---- HandTracker fields (constructor, handTracking.js:4-37)
    handHistories,        \* <<history of slot 0, history of slot 1>>
    activeHandIndex,      \* -1, 0 or 1
    lostFrames,
    lastValidHand,        \* Null or Some(hand)
    lastValidCenter,      \* Null or Some([x, y])
    lastHand,
    lastHandCenter,
    trackerVelocityHistory, \* HandTracker.velocityHistory
    \* ---- observation of the tracker calls made so far
    htOp,                 \* the tracker operation executed last
    htHands,              \* the detection list it processed
    htPositions,          \* the centers computed, or the positions given to
                          \* updateHandHistories, by that operation
    htRet,                \* the hand it returned: Null or Some(hand)
    htPrevActive,         \* activeHandIndex before that operation
    htSelected,           \* what the last non-empty detection returned
    htGap,                \* consecutive empty lists since then
    htCalls,              \* tracker calls with a non-empty input so far
    \* ---- Game fields (constructor, game.js:9-49)
    gameState,            \* Game.state: "menu" | "ready" | "playing" | "gameover"
    score,
    highScore,
    storedHighScore,      \* localStorage 'fappyHighScore'
    frozen,
    speed,                \* hundredths
    gap,                  \* pixels
    gameOverTime,
    \* ---- Bird fields (constructor, bird.js:8-19)
    birdX,
    birdY,
    birdVelocity,
    birdRotation,
    flapFrame,
    flapTimer,
    isFlapping,
    \* ---- PipeManager fields (constructor, pipes.js:10-17)
    pipes,                \* sequence of [id, x, gapTop, gapBottom, scored]
    spawnTimer,
    \* ---- observation of the game calls made so far
    gameOp,               \* the operation of Game, Bird or PipeManager executed last
    gameRet,              \* what it returned
    speedArg,             \* the speed argument of the last Bird.update
    pipesSpawned,         \* pipes spawned so far; a pipe's id is its number
    gameCalls,            \* direct calls of Bird and PipeManager so far
    rounds,               \* rounds started so far
    \* ---- the detection loop (main.js:50-54, handTracking.js:6-7)
    useWorker,            \* HandTracker.useWorker (with a worker)
    detectionInProgress,  \* FappyBird.detectionInProgress
    detectPhase,          \* where processHandTracking is suspended:
                          \* "idle" | "awaitBitmap" | "awaitEstimate"
    pending,              \* detect requests whose result is not yet delivered
    emptyRun              \* most recent consecutive detector results without a hand

mdFields == <<positions, smoothedY, cooldownTimer, state, upwardFrames,
              peakVelocity, velocityHistory, currentVelocity, rawY>>
mdConfig == <<jumpThreshold, cooldownFrames, requiredUpwardFrames>>
mdObs == <<lastOp, ret, calls, hist, velocity>>
mdVars == <<mdFields, mdConfig, now, mdObs>>
htFields == <<handHistories, activeHandIndex, lostFrames, lastValidHand,
              lastValidCenter, lastHand, lastHandCenter, trackerVelocityHistory>>
htObs == <<htOp, htHands, htPositions, htRet, htPrevActive, htSelected, htGap,
           htCalls>>
htVars == <<htFields, htObs>>
gameFields == <<gameState, score, highScore, storedHighScore, frozen, speed,
                gap, gameOverTime>>
birdFields == <<birdX, birdY, birdVelocity, birdRotation, flapFrame, flapTimer,
                isFlapping>>
pipeFields == <<pipes, spawnTimer>>
gameObs == <<gameOp, gameRet, speedArg, pipesSpawned, gameCalls, rounds>>
gameVars == <<gameFields, birdFields, pipeFields, gameObs>>
loopVars == <<useWorker, detectionInProgress, detectPhase, pending, emptyRun>>
notMotion == <<htVars, gameVars, loopVars>>
notTracker == <<mdVars, gameVars, loopVars>>
notGame == <<mdVars, htVars, loopVars>>
vars == <<mdVars, htVars, gameVars, loopVars>>

----------------------------------------------------------------------------
(* Values *)

Null == <<>>
Some(v) == <<v>>
Val(o) == o[1]

Px(n) == 100 * n          \* pixels            -> hundredths of a pixel
Ms(n) == 100 * n          \* milliseconds      -> hundredths of a millisecond

\* a / b rounded to the nearest integer (b > 0)
RoundDiv(a, b) == (2 * a + b) \div (2 * b)

Max(a, b) == IF a >= b THEN a ELSE b
Min(a, b) == IF a <= b THEN a ELSE b

\* the last n entries of s: Array.prototype.slice(-n)
LastN(s, n) == IF Len(s) <= n THEN s ELSE SubSeq(s, Len(s) - n + 1, Len(s))

\* variant: a push without the cap
PushUncapped(s, e, cap) == Append(s, e)

\* push with a cap: s.push(e); if (s.length > cap) s.shift()
PushCapped(s, e, cap) ==
    LET t == Append(s, e) IN IF Len(t) > cap THEN Tail(t) ELSE t

----------------------------------------------------------------------------
(* MotionDetector: constants of the constructor *)

maxPositions == 10
maxVelocityHistory == 5
\* smoothingFactor = 0.4 = SmoothNum / SmoothDen
SmoothNum == 4
SmoothDen == 10
\* 16.67 ms, the reference frame time of getVelocity
FrameTime == 1667
\* literal thresholds of update(): velocity < -5 and velocity > 3
OnsetThreshold == 5
ExitThreshold == 3
DefaultJumpThreshold == 10
DefaultCooldownFrames == 10
DefaultRequiredUpwardFrames == 2

----------------------------------------------------------------------------
(* MotionDetector: addPosition, getVelocity *)

\* variant: a negative sample is clamped to 0
SmoothClamped(prev, y) ==
    IF prev = Null
    THEN Max(y, 0)
    ELSE RoundDiv(SmoothNum * Max(y, 0) + (SmoothDen - SmoothNum) * Val(prev),
                  SmoothDen)

\* variant: the weights of the new sample and of the previous value swapped
SmoothSwapped(prev, y) ==
    IF prev = Null
    THEN y
    ELSE RoundDiv((SmoothDen - SmoothNum) * y + SmoothNum * Val(prev), SmoothDen)

\* exponential smoothing of addPosition
Smooth(prev, y) ==
    IF prev = Null
    THEN y
    ELSE RoundDiv(SmoothNum * y + (SmoothDen - SmoothNum) * Val(prev), SmoothDen)

\* addPosition(y) at time t: the new smoothedY, rawY and positions
AddPosition(pos, sm, y, t) ==
    LET s == Smooth(sm, y)
    IN  [smoothedY |-> Some(s),
         rawY      |-> y,
         positions |-> PushCapped(pos, [y |-> s, time |-> t], maxPositions)]

\* variant: the difference taken the other way round (previous - current)
NormalizedVelocityReversed(dy, dt) == RoundDiv((-dy) * FrameTime, Max(dt, Ms(1)))

\* (dy / Math.max(dt, 1)) * 16.67
NormalizedVelocity(dy, dt) == RoundDiv(dy * FrameTime, Max(dt, Ms(1)))

RECURSIVE WeightedSum(_, _)
\* sum over i = 1 .. n-1 of normalizedVelocity(recent[i], recent[i-1]) * i
\* (JavaScript indices; recent[i] is rec[i+1] here)
WeightedSum(rec, i) ==
    IF i < 1
    THEN 0
    ELSE WeightedSum(rec, i - 1)
         + i * NormalizedVelocity(rec[i + 1].y - rec[i].y,
                                  rec[i + 1].time - rec[i].time)

RECURSIVE WeightSum(_)
WeightSum(n) == IF n < 1 THEN 0 ELSE n + WeightSum(n - 1)

\* getVelocity(): the value returned and the fields it writes
GetVelocity(pos, cv, vh) ==
    IF Len(pos) < 2
    THEN [velocity |-> 0, currentVelocity |-> cv, velocityHistory |-> vh]
    ELSE LET recent == LastN(pos, 4)
             totalVelocity == WeightedSum(recent, Len(recent) - 1)
             totalWeight == WeightSum(Len(recent) - 1)
             avgVelocity == IF totalWeight > 0
                            THEN RoundDiv(totalVelocity, totalWeight)
                            ELSE 0
         IN  [velocity |-> avgVelocity,
              currentVelocity |-> avgVelocity,
              velocityHistory |-> PushCapped(vh, avgVelocity, maxVelocityHistory)]

----------------------------------------------------------------------------
(* MotionDetector: the state machine of update() *)

\* variant: the timer stops at 1
CooldownTickStops(cd) == IF cd > 1 THEN cd - 1 ELSE cd

\* if (this.cooldownTimer > 0) this.cooldownTimer--
CooldownTick(cd) == IF cd > 0 THEN cd - 1 ELSE cd

\* variant: the trigger arms the timer but leaves the state 'moving_up'
TransitionKeepsMovingUp(st, uf, cd, v, jt, cf, ruf) ==
    CASE st = "idle" ->
           IF v < -Px(OnsetThreshold)
           THEN [state |-> "moving_up", upwardFrames |-> 1,
                 cooldownTimer |-> cd, ret |-> FALSE]
           ELSE [state |-> st, upwardFrames |-> uf,
                 cooldownTimer |-> cd, ret |-> FALSE]
      [] st = "moving_up" ->
           IF v < -Px(OnsetThreshold)
           THEN IF uf + 1 >= ruf /\ v < -Px(jt) /\ cd = 0
                THEN [state |-> "moving_up", upwardFrames |-> uf + 1,
                      cooldownTimer |-> cf, ret |-> TRUE]
                ELSE [state |-> st, upwardFrames |-> uf + 1,
                      cooldownTimer |-> cd, ret |-> FALSE]
           ELSE [state |-> "idle", upwardFrames |-> 0,
                 cooldownTimer |-> cd, ret |-> FALSE]
      [] st = "cooldown" ->
           IF v > Px(ExitThreshold)
           THEN [state |-> "idle", upwardFrames |-> 0,
                 cooldownTimer |-> cd, ret |-> FALSE]
           ELSE [state |-> st, upwardFrames |-> uf,
                 cooldownTimer |-> cd, ret |-> FALSE]

\* variant: the trigger does not test cooldownTimer === 0
TransitionIgnoresTimer(st, uf, cd, v, jt, cf, ruf) ==
    CASE st = "idle" ->
           IF v < -Px(OnsetThreshold)
           THEN [state |-> "moving_up", upwardFrames |-> 1,
                 cooldownTimer |-> cd, ret |-> FALSE]
           ELSE [state |-> st, upwardFrames |-> uf,
                 cooldownTimer |-> cd, ret |-> FALSE]
      [] st = "moving_up" ->
           IF v < -Px(OnsetThreshold)
           THEN IF uf + 1 >= ruf /\ v < -Px(jt)
                THEN [state |-> "cooldown", upwardFrames |-> uf + 1,
                      cooldownTimer |-> cf, ret |-> TRUE]
                ELSE [state |-> st, upwardFrames |-> uf + 1,
                      cooldownTimer |-> cd, ret |-> FALSE]
           ELSE [state |-> "idle", upwardFrames |-> 0,
                 cooldownTimer |-> cd, ret |-> FALSE]
      [] st = "cooldown" ->
           IF v > Px(ExitThreshold)
           THEN [state |-> "idle", upwardFrames |-> 0,
                 cooldownTimer |-> cd, ret |-> FALSE]
           ELSE [state |-> st, upwardFrames |-> uf,
                 cooldownTimer |-> cd, ret |-> FALSE]

\* variant: an interrupted upward motion keeps its confirmation count
TransitionKeepsCount(st, uf, cd, v, jt, cf, ruf) ==
    CASE st = "idle" ->
           IF v < -Px(OnsetThreshold)
           THEN [state |-> "moving_up", upwardFrames |-> uf + 1,
                 cooldownTimer |-> cd, ret |-> FALSE]
           ELSE [state |-> st, upwardFrames |-> uf,
                 cooldownTimer |-> cd, ret |-> FALSE]
      [] st = "moving_up" ->
           IF v < -Px(OnsetThreshold)
           THEN IF uf + 1 >= ruf /\ v < -Px(jt) /\ cd = 0
                THEN [state |-> "cooldown", upwardFrames |-> uf + 1,
                      cooldownTimer |-> cf, ret |-> TRUE]
                ELSE [state |-> st, upwardFrames |-> uf + 1,
                      cooldownTimer |-> cd, ret |-> FALSE]
           ELSE [state |-> "idle", upwardFrames |-> uf,
                 cooldownTimer |-> cd, ret |-> FALSE]
      [] st = "cooldown" ->
           IF v > Px(ExitThreshold)
           THEN [state |-> "idle", upwardFrames |-> 0,
                 cooldownTimer |-> cd, ret |-> FALSE]
           ELSE [state |-> st, upwardFrames |-> uf,
                 cooldownTimer |-> cd, ret |-> FALSE]

\* variant: the cooldown also ends when its timer has run out
TransitionLeavesOnTimer(st, uf, cd, v, jt, cf, ruf) ==
    CASE st = "idle" ->
           IF v < -Px(OnsetThreshold)
           THEN [state |-> "moving_up", upwardFrames |-> 1,
                 cooldownTimer |-> cd, ret |-> FALSE]
           ELSE [state |-> st, upwardFrames |-> uf,
                 cooldownTimer |-> cd, ret |-> FALSE]
      [] st = "moving_up" ->
           IF v < -Px(OnsetThreshold)
           THEN IF uf + 1 >= ruf /\ v < -Px(jt) /\ cd = 0
                THEN [state |-> "cooldown", upwardFrames |-> uf + 1,
                      cooldownTimer |-> cf, ret |-> TRUE]
                ELSE [state |-> st, upwardFrames |-> uf + 1,
                      cooldownTimer |-> cd, ret |-> FALSE]
           ELSE [state |-> "idle", upwardFrames |-> 0,
                 cooldownTimer |-> cd, ret |-> FALSE]
      [] st = "cooldown" ->
           IF v > Px(ExitThreshold) \/ cd = 0
           THEN [state |-> "idle", upwardFrames |-> 0,
                 cooldownTimer |-> cd, ret |-> FALSE]
           ELSE [state |-> st, upwardFrames |-> uf,
                 cooldownTimer |-> cd, ret |-> FALSE]

\* switch (this.state) { ... } with cd the timer after CooldownTick
Transition(st, uf, cd, v, jt, cf, ruf) ==
    CASE st = "idle" ->
           IF v < -Px(OnsetThreshold)
           THEN [state |-> "moving_up", upwardFrames |-> 1,
                 cooldownTimer |-> cd, ret |-> FALSE]
           ELSE [state |-> st, upwardFrames |-> uf,
                 cooldownTimer |-> cd, ret |-> FALSE]
      [] st = "moving_up" ->
           IF v < -Px(OnsetThreshold)
           THEN IF uf + 1 >= ruf /\ v < -Px(jt) /\ cd = 0
                THEN [state |-> "cooldown", upwardFrames |-> uf + 1,
                      cooldownTimer |-> cf, ret |-> TRUE]
                ELSE [state |-> st, upwardFrames |-> uf + 1,
                      cooldownTimer |-> cd, ret |-> FALSE]
           ELSE [state |-> "idle", upwardFrames |-> 0,
                 cooldownTimer |-> cd, ret |-> FALSE]
      [] st = "cooldown" ->
           IF v > Px(ExitThreshold)
           THEN [state |-> "idle", upwardFrames |-> 0,
                 cooldownTimer |-> cd, ret |-> FALSE]
           ELSE [state |-> st, upwardFrames |-> uf,
                 cooldownTimer |-> cd, ret |-> FALSE]

----------------------------------------------------------------------------
(* Bounds and inputs of the model *)

\* position-carrying update calls in one run
MaxCalls == 7
\* the first position fed, in pixels
FirstPositions == {200}
\* the hand moves by one of these amounts (pixels) between two samples
Deltas == {-30, 40}
\* time between two update calls: 0.05 ms (back-to-back calls) or one frame
Intervals == {5, FrameTime}

YInputs == IF calls = 0 THEN {Px(y) : y \in FirstPositions} ELSE {rawY + Px(d) : d \in Deltas}

----------------------------------------------------------------------------
(* MotionDetector: operations *)

InitMotion ==
    /\ positions = <<>>
    /\ smoothedY = Null
    /\ cooldownTimer = 0
    /\ state = "idle"
    /\ upwardFrames = 0
    /\ peakVelocity = 0
    /\ velocityHistory = <<>>
    /\ currentVelocity = 0
    /\ rawY = 0
    /\ jumpThreshold = DefaultJumpThreshold
    /\ cooldownFrames = DefaultCooldownFrames
    /\ requiredUpwardFrames = DefaultRequiredUpwardFrames
    /\ now = 0
    /\ lastOp = "init"
    /\ ret = FALSE
    /\ calls = 0
    /\ hist = <<>>
    /\ velocity = 0

\* new HandTracker()
InitTracker ==
    /\ handHistories = <<<<>>, <<>>>>
    /\ activeHandIndex = -1
    /\ lostFrames = 0
    /\ lastValidHand = Null
    /\ lastValidCenter = Null
    /\ lastHand = Null
    /\ lastHandCenter = Null
    /\ trackerVelocityHistory = <<>>
    /\ htOp = "init"
    /\ htHands = <<>>
    /\ htPositions = <<>>
    /\ htRet = Null
    /\ htPrevActive = -1
    /\ htSelected = Null
    /\ htGap = 0
    /\ htCalls = 0

\* the canvas of main.js
CanvasWidth == 600
CanvasHeight == 900
\* game.js
GROUND_HEIGHT == 80
BirdStartX == 80
StartSpeed == 50
speedIncrement == 5
maxSpeed == 100
StartGap == 200
gapDecrement == 4
minGap == 160
restartCooldown == 3000
\* bird.js, in hundredths of a pixel per frame
GRAVITY == 40
JUMP_VELOCITY == -800
TERMINAL_VELOCITY == 1000
BirdRadius == 15
\* pipes.js
PIPE_GAP_MIN == 160
PIPE_WIDTH == 60
PIPE_SPEED == 250
PIPE_SPACING == 220
SpawnMargin == 80
\* spawnInterval = PIPE_SPACING / PIPE_SPEED, in hundredths
spawnInterval == (Px(PIPE_SPACING) * 100) \div PIPE_SPEED

\* new Game(canvas), with its new Bird(80, height / 2) and new PipeManager;
\* no high score is stored yet
InitGame ==
    /\ gameState = "menu"
    /\ score = 0
    /\ highScore = 0
    /\ storedHighScore = 0
    /\ frozen = TRUE
    /\ speed = StartSpeed
    /\ gap = StartGap
    /\ gameOverTime = 0
    /\ birdX = Px(BirdStartX)
    /\ birdY = Px(CanvasHeight) \div 2
    /\ birdVelocity = 0
    /\ birdRotation = 0
    /\ flapFrame = 0
    /\ flapTimer = 0
    /\ isFlapping = FALSE
    /\ pipes = <<>>
    /\ spawnTimer = 0
    /\ gameOp = "init"
    /\ gameRet = "undefined"
    /\ speedArg = 0
    /\ pipesSpawned = 0
    /\ gameCalls = 0
    /\ rounds = 0

\* new FappyBird(), hand tracking initialised with a worker
InitLoop ==
    /\ useWorker = TRUE
    /\ detectionInProgress = FALSE
    /\ detectPhase = "idle"
    /\ pending = 0
    /\ emptyRun = 0

Init == InitMotion /\ InitTracker /\ InitGame /\ InitLoop

\* update(y) with y a number, dt after the previous call: what it does to the
\* detector
UpdateFields(y, dt) ==
    \E t \in {now + dt} :
    \E ap \in {AddPosition(positions, smoothedY, y, t)} :
    \E gv \in {GetVelocity(ap.positions, currentVelocity, velocityHistory)} :
    \E tr \in {Transition(state, upwardFrames, CooldownTick(cooldownTimer),
                          gv.velocity, jumpThreshold, cooldownFrames,
                          requiredUpwardFrames)} :
        /\ now' = t
        /\ positions' = ap.positions
        /\ smoothedY' = ap.smoothedY
        /\ rawY' = ap.rawY
        /\ currentVelocity' = gv.currentVelocity
        /\ velocityHistory' = gv.velocityHistory
        /\ state' = tr.state
        /\ upwardFrames' = tr.upwardFrames
        /\ cooldownTimer' = tr.cooldownTimer
        /\ ret' = tr.ret
        /\ velocity' = gv.velocity
        /\ lastOp' = "update"
        /\ calls' = calls + 1
        /\ hist' = Append(hist, [y |-> y, dt |-> dt, v |-> gv.velocity,
                                 ret |-> tr.ret, from |-> state,
                                 to |-> tr.state])
        /\ UNCHANGED <<peakVelocity, mdConfig>>

\* update(y) called by itself
Update(y, dt) == UpdateFields(y, dt) /\ UNCHANGED notMotion

\* variant: a tick without a position still counts the cooldown down
UpdateNoneCountsDown ==
    /\ cooldownTimer' = CooldownTick(cooldownTimer)
    /\ ret' = FALSE
    /\ lastOp' = "updateNone"
    /\ UNCHANGED <<positions, smoothedY, state, upwardFrames, peakVelocity,
                   velocityHistory, currentVelocity, rawY, mdConfig, now,
                   calls, hist, velocity, notMotion>>

\* update(null) / update(undefined)
UpdateNone ==
    /\ ret' = FALSE
    /\ lastOp' = "updateNone"
    /\ UNCHANGED <<mdFields, mdConfig, now, calls, hist, velocity, notMotion>>

\* reset()
Reset ==
    /\ positions' = <<>>
    /\ smoothedY' = Null
    /\ velocityHistory' = <<>>
    /\ peakVelocity' = 0
    /\ state' = "idle"
    /\ upwardFrames' = 0
    /\ cooldownTimer' = 0
    /\ currentVelocity' = 0
    /\ lastOp' = "reset"
    /\ hist' = <<>>
    /\ velocity' = 0
    /\ UNCHANGED <<rawY, mdConfig, now, ret, calls, notMotion>>

\* a caller sets the configuration fields of a new detector
Configure ==
    /\ lastOp = "init"
    /\ jumpThreshold' = 10
    /\ cooldownFrames' = 3
    /\ requiredUpwardFrames' = 1
    /\ lastOp' = "configure"
    /\ UNCHANGED <<mdFields, now, ret, calls, hist, velocity, notMotion>>

UpdateStep ==
    /\ calls < MaxCalls
    /\ \E y \in YInputs, dt \in Intervals : Update(y, dt)

NextMotion ==
    \/ UpdateStep
    \/ UpdateNone
    \/ Reset
    \/ Configure

SpecMotion == Init /\ [][NextMotion]_vars

\* The scenario of tests/motion.test.js:58-79: a new detector with its default
\* configuration is fed positions out of 200, 170, 140, 100, 60, one per frame.
MaxScenarioCalls == 5
ScenarioY == {200, 170, 140, 100, 60}

ScenarioStep ==
    /\ calls < MaxScenarioCalls
    /\ \E y \in ScenarioY : Update(Px(y), FrameTime)

NextScenario ==
    \/ ScenarioStep
    \/ UpdateNone
    \/ Reset

SpecScenario == Init /\ [][NextScenario]_vars

\* A hand that pumps up, comes back and is then held still: the positions of
\* processHandTracking, one per frame, the hand moving by one of
\* CooldownDeltas pixels between two samples.
MaxCooldownCalls == 7
CooldownFirst == 400
CooldownDeltas == {-250, -30, 0, 200}

CooldownY ==
    IF calls = 0 THEN {Px(CooldownFirst)} ELSE {rawY + Px(d) : d \in CooldownDeltas}

CooldownStep ==
    /\ calls < MaxCooldownCalls
    /\ \E y \in CooldownY : Update(y, FrameTime)

NextCooldown ==
    \/ CooldownStep
    \/ Reset
    \/ Configure

SpecCooldown == Init /\ [][NextCooldown]_vars

----------------------------------------------------------------------------
(* A second detector, as a value: new MotionDetector() with the             *)
(* configuration of the first one, and update(y) on it                      *)

\* new MotionDetector(), created at time 0
FreshDetector ==
    [positions |-> <<>>, smoothedY |-> Null, rawY |-> 0, cooldownTimer |-> 0,
     state |-> "idle", upwardFrames |-> 0, velocityHistory |-> <<>>,
     currentVelocity |-> 0, time |-> 0, velocity |-> 0, ret |-> FALSE]

\* update(y) on the detector d, dt after its previous call
Fed(d, y, dt) ==
    LET t  == d.time + dt
        ap == AddPosition(d.positions, d.smoothedY, y, t)
        gv == GetVelocity(ap.positions, d.currentVelocity, d.velocityHistory)
        tr == Transition(d.state, d.upwardFrames, CooldownTick(d.cooldownTimer),
                         gv.velocity, jumpThreshold, cooldownFrames,
                         requiredUpwardFrames)
    IN  [positions |-> ap.positions, smoothedY |-> ap.smoothedY,
         rawY |-> ap.rawY, cooldownTimer |-> tr.cooldownTimer,
         state |-> tr.state, upwardFrames |-> tr.upwardFrames,
         velocityHistory |-> gv.velocityHistory,
         currentVelocity |-> gv.currentVelocity, time |-> t,
         velocity |-> gv.velocity, ret |-> tr.ret]

\* A constant of a magnitude beyond 2^53 times every coordinate: in double
\* arithmetic its sum with a coordinate is the constant itself.  Such a
\* magnitude is outside the integers of the model checker; this value
\* stands for it, and only its sums with coordinates follow the doubles.
Absorbing == Px(1000000)

\* the number y + c that a caller passes to update()
Moved(y, c) == IF c >= Absorbing THEN c ELSE y + c

RECURSIVE Replay(_, _, _)
\* a new detector fed the first n samples of h, each moved by c
Replay(h, n, c) ==
    IF n = 0
    THEN FreshDetector
    ELSE Fed(Replay(h, n - 1, c), Moved(h[n].y, c), h[n].dt)

----------------------------------------------------------------------------
(* addPosition and getVelocity called by themselves, as the tests of        *)
(* tests/motion.test.js and tests/run.js call them                          *)

\* addPosition(y), dt after the previous call
AddPositionCall(y, dt) ==
    \E t \in {now + dt} :
    \E ap \in {AddPosition(positions, smoothedY, y, t)} :
        /\ now' = t
        /\ positions' = ap.positions
        /\ smoothedY' = ap.smoothedY
        /\ rawY' = ap.rawY
        /\ lastOp' = "addPosition"
        /\ calls' = calls + 1
        /\ UNCHANGED <<cooldownTimer, state, upwardFrames, peakVelocity,
                       velocityHistory, currentVelocity, mdConfig, ret, hist,
                       velocity, notMotion>>

\* getVelocity() returning gv.velocity and writing the fields of gv
GetVelocityReturns(gv) ==
    /\ currentVelocity' = gv.currentVelocity
    /\ velocityHistory' = gv.velocityHistory
    /\ velocity' = gv.velocity
    /\ lastOp' = "getVelocity"
    /\ UNCHANGED <<positions, smoothedY, cooldownTimer, state, upwardFrames,
                   peakVelocity, rawY, mdConfig, now, ret, calls, hist,
                   notMotion>>

\* getVelocity()
GetVelocityCall ==
    GetVelocityReturns(GetVelocity(positions, currentVelocity, velocityHistory))

\* calls of addPosition in one run, and the positions the tests feed
MaxSampleCalls == 4
SampleYs == {100, 200}

SampleStep ==
    /\ calls < MaxSampleCalls
    /\ \E y \in SampleYs, dt \in Intervals : AddPositionCall(Px(y), dt)

NextSamples ==
    \/ SampleStep
    \/ GetVelocityCall
    \/ Reset

SpecSamples == Init /\ [][NextSamples]_vars

----------------------------------------------------------------------------
(* addPosition and getVelocity at the end of the range of a double.  In     *)
(* SpecLarge a coordinate n stands for n * 10^305 pixels, so that the       *)
(* largest finite double, Number.MAX_VALUE = 1.797...e308, is MaxValue; an  *)
(* arithmetic result beyond it is Infinity or -Infinity in JavaScript.      *)

MaxValue == 1797
Finite(v) == -MaxValue <= v /\ v <= MaxValue
\* stands for Infinity, -Infinity and NaN
NonFinite == MaxValue + 1

RECURSIVE LoopOverflows(_, _)
\* some dy, normalizedVelocity, normalizedVelocity * weight or totalVelocity
\* of the loop of getVelocity up to i is beyond the range
LoopOverflows(rec, i) ==
    IF i < 1
    THEN FALSE
    ELSE \/ LoopOverflows(rec, i - 1)
         \/ \E dy \in {rec[i + 1].y - rec[i].y} :
            \E nv \in {NormalizedVelocity(dy, rec[i + 1].time - rec[i].time)} :
                \/ ~Finite(dy)
                \/ ~Finite(nv)
                \/ ~Finite(nv * i)
                \/ ~Finite(WeightedSum(rec, i))

\* getVelocity() on doubles: a loop that overflows leaves a non-finite
\* totalVelocity, and avgVelocity is non-finite with it
GetVelocityDouble(pos, cv, vh) ==
    IF Len(pos) >= 2 /\ LoopOverflows(LastN(pos, 4), Len(LastN(pos, 4)) - 1)
    THEN [velocity |-> NonFinite,
          currentVelocity |-> NonFinite,
          velocityHistory |-> PushCapped(vh, NonFinite, maxVelocityHistory)]
    ELSE GetVelocity(pos, cv, vh)

\* calls of addPosition in one run, and the coordinates fed: 0 and +-1e308
MaxLargeCalls == 4
LargeYs == {-1000, 0, 1000}

\* a run is followed as long as every velocity returned was finite
LargeStep ==
    /\ calls < MaxLargeCalls
    /\ Finite(velocity)
    /\ \E y \in LargeYs, dt \in Intervals : AddPositionCall(y, dt)

LargeGetVelocity ==
    /\ Finite(velocity)
    /\ GetVelocityReturns(GetVelocityDouble(positions, currentVelocity,
                                            velocityHistory))

NextLarge ==
    \/ LargeStep
    \/ LargeGetVelocity

SpecLarge == Init /\ [][NextLarge]_vars

----------------------------------------------------------------------------
(* HandTracker: constants of the constructor *)

historyLength == 10
maxLostFrames == 8
trackerMaxVelocityHistory == 5
\* motions[activeIndex] > motions[1 - activeIndex] * 1.5, 1.5 = 3 / 2
SwitchNum == 3
SwitchDen == 2
\* history samples that count for the motion of a hand, and the least number
WindowSize == 5
MinSamples == 3

\* const indices = [0, 5, 9, 13, 17]
StableIndices == <<0, 5, 9, 13, 17>>

----------------------------------------------------------------------------
(* HandTracker: getHandCenter, updateHandHistories, selectActiveHand *)

RECURSIVE SumPresentCountsAll(_, _, _)
\* variant: an absent landmark is counted as well
SumPresentCountsAll(hand, n, acc) ==
    IF n = 0
    THEN acc
    ELSE LET a == SumPresentCountsAll(hand, n - 1, acc)
             i == StableIndices[n]
         IN  IF i \in DOMAIN hand.keypoints
             THEN [sumX  |-> a.sumX + hand.keypoints[i].x,
                   sumY  |-> a.sumY + hand.keypoints[i].y,
                   count |-> a.count + 1]
             ELSE [a EXCEPT !.count = a.count + 1]

RECURSIVE SumPresent(_, _, _)
\* the loop of getHandCenter over indices[1..n]: sumX, sumY, count
SumPresent(hand, n, acc) ==
    IF n = 0
    THEN acc
    ELSE LET a == SumPresent(hand, n - 1, acc)
             i == StableIndices[n]
         IN  IF i \in DOMAIN hand.keypoints
             THEN [sumX  |-> a.sumX + hand.keypoints[i].x,
                   sumY  |-> a.sumY + hand.keypoints[i].y,
                   count |-> a.count + 1]
             ELSE a

\* getHandCenter(hand): Some([x, y]) or Null
GetHandCenter(hand) ==
    LET t == SumPresent(hand, Len(StableIndices),
                        [sumX |-> 0, sumY |-> 0, count |-> 0])
    IN  IF t.count > 0
        THEN Some([x |-> RoundDiv(t.sumX, t.count), y |-> RoundDiv(t.sumY, t.count)])
        ELSE Null

\* hands.map(hand => this.getHandCenter(hand))
HandPositions(hands) ==
    IF Len(hands) = 1
    THEN <<GetHandCenter(hands[1])>>
    ELSE <<GetHandCenter(hands[1]), GetHandCenter(hands[2])>>

\* updateHandHistories(positions): the new handHistories, slot by slot.
\* Slot i of the code is entry i + 1 here.
\* variant: a slot whose entry is null is cleared like a missing one
UpdateHistorySlotClearsNull(hh, pos, i) ==
    IF i <= Len(pos) /\ pos[i] # Null
    THEN PushCapped(hh[i], Val(pos[i]).y, historyLength)
    ELSE <<>>

UpdateHistorySlot(hh, pos, i) ==
    IF i <= Len(pos)
    THEN IF pos[i] # Null
         THEN PushCapped(hh[i], Val(pos[i]).y, historyLength)
         ELSE hh[i]
    ELSE <<>>

UpdateHandHistories(hh, pos) ==
    <<UpdateHistorySlot(hh, pos, 1), UpdateHistorySlot(hh, pos, 2)>>

RECURSIVE SeqSum(_)
SeqSum(q) == IF q = <<>> THEN 0 ELSE Head(q) + SeqSum(Tail(q))

RECURSIVE SumSquares(_, _)
\* recent.reduce((a, b) => a + Math.pow(b - mean, 2), 0)
SumSquares(q, mean) ==
    IF q = <<>>
    THEN 0
    ELSE (Head(q) - mean) * (Head(q) - mean) + SumSquares(Tail(q), mean)

\* the motion (variance) of one history, as selectActiveHand computes it
Motion(history) ==
    IF Len(history) < MinSamples
    THEN 0
    ELSE LET recent == LastN(history, WindowSize)
             mean == RoundDiv(SeqSum(recent), Len(recent))
         IN  RoundDiv(SumSquares(recent, mean), Len(recent))

\* variant: a single hand becomes the active slot 0
SelectActiveHandAdoptsSingle(hh, active, hands, pos) ==
    IF Len(hands) = 1
    THEN [activeHandIndex |-> 0,
          hand |-> hands[1], center |-> pos[1], isActive |-> TRUE]
    ELSE LET motions == <<Motion(hh[1]), Motion(hh[2])>>
             activeIndex == IF motions[1] >= motions[2] THEN 0 ELSE 1
             newActive ==
                 IF \/ active = -1
                    \/ SwitchDen * motions[activeIndex + 1]
                         > SwitchNum * motions[(1 - activeIndex) + 1]
                 THEN activeIndex
                 ELSE active
             idx == Min(newActive, Len(hands) - 1)
         IN  [activeHandIndex |-> newActive,
              hand |-> hands[idx + 1], center |-> pos[idx + 1], isActive |-> TRUE]

\* variant: a single hand forgets the active slot
SelectActiveHandForgetsOnOne(hh, active, hands, pos) ==
    IF Len(hands) = 1
    THEN [activeHandIndex |-> -1,
          hand |-> hands[1], center |-> pos[1], isActive |-> TRUE]
    ELSE LET motions == <<Motion(hh[1]), Motion(hh[2])>>
             activeIndex == IF motions[1] >= motions[2] THEN 0 ELSE 1
             newActive ==
                 IF \/ active = -1
                    \/ SwitchDen * motions[activeIndex + 1]
                         > SwitchNum * motions[(1 - activeIndex) + 1]
                 THEN activeIndex
                 ELSE active
             idx == Min(newActive, Len(hands) - 1)
         IN  [activeHandIndex |-> newActive,
              hand |-> hands[idx + 1], center |-> pos[idx + 1], isActive |-> TRUE]

\* variant: of two hands the one returned is rebuilt from its center
SelectActiveHandRebuilds(hh, active, hands, pos) ==
    IF Len(hands) = 1
    THEN [activeHandIndex |-> active,
          hand |-> hands[1], center |-> pos[1], isActive |-> TRUE]
    ELSE LET motions == <<Motion(hh[1]), Motion(hh[2])>>
             activeIndex == IF motions[1] >= motions[2] THEN 0 ELSE 1
             newActive ==
                 IF \/ active = -1
                    \/ SwitchDen * motions[activeIndex + 1]
                         > SwitchNum * motions[(1 - activeIndex) + 1]
                 THEN activeIndex
                 ELSE active
             idx == Min(newActive, Len(hands) - 1)
         IN  [activeHandIndex |-> newActive,
              hand |-> [keypoints |-> (0 :> Val(pos[idx + 1]))],
              center |-> pos[idx + 1], isActive |-> TRUE]

\* variant: the center returned is always that of the first hand
SelectActiveHandCenterOfFirst(hh, active, hands, pos) ==
    IF Len(hands) = 1
    THEN [activeHandIndex |-> active,
          hand |-> hands[1], center |-> pos[1], isActive |-> TRUE]
    ELSE LET motions == <<Motion(hh[1]), Motion(hh[2])>>
             activeIndex == IF motions[1] >= motions[2] THEN 0 ELSE 1
             newActive ==
                 IF \/ active = -1
                    \/ SwitchDen * motions[activeIndex + 1]
                         > SwitchNum * motions[(1 - activeIndex) + 1]
                 THEN activeIndex
                 ELSE active
             idx == Min(newActive, Len(hands) - 1)
         IN  [activeHandIndex |-> newActive,
              hand |-> hands[idx + 1], center |-> pos[1], isActive |-> TRUE]

\* variant: the switch test is >= instead of >
SelectActiveHandSwitchesOnTie(hh, active, hands, pos) ==
    IF Len(hands) = 1
    THEN [activeHandIndex |-> active,
          hand |-> hands[1], center |-> pos[1], isActive |-> TRUE]
    ELSE LET motions == <<Motion(hh[1]), Motion(hh[2])>>
             activeIndex == IF motions[1] >= motions[2] THEN 0 ELSE 1
             newActive ==
                 IF \/ active = -1
                    \/ SwitchDen * motions[activeIndex + 1]
                         >= SwitchNum * motions[(1 - activeIndex) + 1]
                 THEN activeIndex
                 ELSE active
             idx == Min(newActive, Len(hands) - 1)
         IN  [activeHandIndex |-> newActive,
              hand |-> hands[idx + 1], center |-> pos[idx + 1], isActive |-> TRUE]

\* selectActiveHand(hands, positions): the new activeHandIndex and the result
SelectActiveHand(hh, active, hands, pos) ==
    IF Len(hands) = 1
    THEN [activeHandIndex |-> active,
          hand |-> hands[1], center |-> pos[1], isActive |-> TRUE]
    ELSE LET motions == <<Motion(hh[1]), Motion(hh[2])>>
             activeIndex == IF motions[1] >= motions[2] THEN 0 ELSE 1
             newActive ==
                 IF \/ active = -1
                    \/ SwitchDen * motions[activeIndex + 1]
                         > SwitchNum * motions[(1 - activeIndex) + 1]
                 THEN activeIndex
                 ELSE active
             idx == Min(newActive, Len(hands) - 1)
         IN  [activeHandIndex |-> newActive,
              hand |-> hands[idx + 1], center |-> pos[idx + 1], isActive |-> TRUE]

\* trackVelocity(center): the new velocityHistory (the time field of an
\* entry is written and never read; it is left out)
TrackVelocity(vh, center) ==
    IF center = Null
    THEN vh
    ELSE LET c == Val(center)
             e == IF Len(vh) > 0
                  THEN [y |-> c.y, velocity |-> vh[Len(vh)].y - c.y]
                  ELSE [y |-> c.y, velocity |-> 0]
         IN  PushCapped(vh, e, trackerMaxVelocityHistory)

----------------------------------------------------------------------------
(* HandTracker: inputs of the model *)

\* non-empty detection lists in one run
MaxDetections == 5
\* the lost-frame counter is followed up to this value
MaxLost == 10
\* direct calls of updateHandHistories in one run
MaxHistoryCalls == 3

\* a hand whose wrist is at (x, y) pixels, with the four knuckle bases
\* (keypoints 5, 9, 13, 17) around it; only the stable keypoints are read
MockHand(x, y) ==
    [keypoints |->
        (0 :> [x |-> Px(x), y |-> Px(y)]) @@
        (5 :> [x |-> Px(x - 10), y |-> Px(y - 20)]) @@
        (9 :> [x |-> Px(x), y |-> Px(y - 25)]) @@
        (13 :> [x |-> Px(x + 10), y |-> Px(y - 25)]) @@
        (17 :> [x |-> Px(x + 20), y |-> Px(y - 20)])]

HandYs == {100, 110}
\* what the detector may report: no hand, one hand, two hands
DetectionLists ==
    {<<MockHand(100, y)>> : y \in HandYs}
    \cup {<<MockHand(100, y0), MockHand(300, y1)>> : y0 \in HandYs, y1 \in HandYs}

\* position lists of 0 to 2 entries, an entry being a position or null
PositionEntries == {Null} \cup {Some([x |-> Px(100), y |-> Px(y)]) : y \in HandYs}
PositionLists ==
    {<<>>} \cup {<<a>> : a \in PositionEntries}
    \cup {<<a, b>> : a \in PositionEntries, b \in PositionEntries}

----------------------------------------------------------------------------
(* HandTracker: operations *)

\* variant: the window ends one frame early
WithinPersistenceStrict(lf, lvh) == lf < maxLostFrames /\ lvh # Null

\* this.lostFrames <= this.maxLostFrames && this.lastValidHand
WithinPersistence(lf, lvh) == lf <= maxLostFrames /\ lvh # Null

\* the body shared by processHandResult(hands) and the main-thread branch of
\* detect() (handTracking.js:274-316 repeats 222-251), op naming the caller:
\* what it does to the tracker
HandleHandsFields(hands, op) ==
    /\ htOp' = op
    /\ htHands' = hands
    /\ htPrevActive' = activeHandIndex
    /\ IF Len(hands) = 0
       THEN /\ lostFrames' = lostFrames + 1
            /\ IF WithinPersistence(lostFrames + 1, lastValidHand)
               THEN /\ lastHand' = lastValidHand
                    /\ lastHandCenter' = lastValidCenter
                    /\ htRet' = lastValidHand
               ELSE /\ lastHand' = Null
                    /\ lastHandCenter' = Null
                    /\ htRet' = Null
            /\ htGap' = htGap + 1
            /\ UNCHANGED <<handHistories, activeHandIndex, lastValidHand,
                           lastValidCenter, trackerVelocityHistory,
                           htPositions, htSelected, htCalls>>
       ELSE \E handPositions \in {HandPositions(hands)} :
            \E hh \in {UpdateHandHistories(handHistories, handPositions)} :
            \E sel \in {SelectActiveHand(hh, activeHandIndex, hands, handPositions)} :
                /\ lostFrames' = 0
                /\ handHistories' = hh
                /\ activeHandIndex' = sel.activeHandIndex
                /\ lastHand' = Some(sel.hand)
                /\ lastHandCenter' = sel.center
                /\ lastValidHand' = Some(sel.hand)
                /\ lastValidCenter' = sel.center
                /\ trackerVelocityHistory' =
                       TrackVelocity(trackerVelocityHistory, sel.center)
                /\ htRet' = Some(sel.hand)
                /\ htPositions' = handPositions
                /\ htSelected' = Some(sel.hand)
                /\ htGap' = 0
                /\ htCalls' = htCalls + 1

HandleHands(hands, op) == HandleHandsFields(hands, op) /\ UNCHANGED notTracker

\* processHandResult(hands)
ProcessHandResult(hands) == HandleHands(hands, "processHandResult")

\* detect() on the main thread, hands the result of estimateHands
DetectMainThread(hands) == HandleHands(hands, "detect")

\* updateHandHistories(positions) called by itself
UpdateHandHistoriesCall(pos) ==
    /\ handHistories' = UpdateHandHistories(handHistories, pos)
    /\ htOp' = "updateHandHistories"
    /\ htPositions' = pos
    /\ htCalls' = htCalls + 1
    /\ UNCHANGED <<activeHandIndex, lostFrames, lastValidHand, lastValidCenter,
                   lastHand, lastHandCenter, trackerVelocityHistory,
                   htHands, htRet, htPrevActive, htSelected, htGap>>
    /\ UNCHANGED notTracker

\* the detector reported hands
HandsDetected(hands) ==
    /\ htCalls < MaxDetections
    /\ \/ ProcessHandResult(hands)
       \/ DetectMainThread(hands)

\* the detector reported no hand
NoHandDetected ==
    /\ lostFrames < MaxLost
    /\ \/ ProcessHandResult(<<>>)
       \/ DetectMainThread(<<>>)

NextTracker ==
    \/ \E hands \in DetectionLists : HandsDetected(hands)
    \/ NoHandDetected

SpecTracker == Init /\ [][NextTracker]_vars

HistoryStep ==
    /\ htCalls < MaxHistoryCalls
    /\ \E pos \in PositionLists : UpdateHandHistoriesCall(pos)

NextHistories == HistoryStep

SpecHistories == Init /\ [][NextHistories]_vars

----------------------------------------------------------------------------
(* selectActiveHand called by itself, on histories built by                *)
(* updateHandHistories (src/test.sh:258-310)                               *)

\* calls of updateHandHistories in one run
MaxSelectCalls == 4

\* the position lists given to updateHandHistories: one or two positions
SelectPositionLists == {pos \in PositionLists : pos # <<>> /\ \A i \in 1..Len(pos) : pos[i] # Null}

\* selectActiveHand(hands, positions): htRet is the object returned
SelectActiveHandCall(hands, pos) ==
    \E sel \in {SelectActiveHand(handHistories, activeHandIndex, hands, pos)} :
        /\ activeHandIndex' = sel.activeHandIndex
        /\ htOp' = "selectActiveHand"
        /\ htHands' = hands
        /\ htPositions' = pos
        /\ htPrevActive' = activeHandIndex
        /\ htRet' = Some([hand |-> sel.hand, center |-> sel.center,
                          isActive |-> sel.isActive])
        /\ UNCHANGED <<handHistories, lostFrames, lastValidHand,
                       lastValidCenter, lastHand, lastHandCenter,
                       trackerVelocityHistory, htSelected, htGap, htCalls>>
        /\ UNCHANGED notTracker

SelectHistoryStep ==
    /\ htCalls < MaxSelectCalls
    /\ \E pos \in SelectPositionLists : UpdateHandHistoriesCall(pos)

SelectStep ==
    \E hands \in DetectionLists : SelectActiveHandCall(hands, HandPositions(hands))

NextSelect ==
    \/ SelectHistoryStep
    \/ SelectStep

SpecSelect == Init /\ [][NextSelect]_vars

----------------------------------------------------------------------------
(* getHandCenter called by itself, on hands with some landmarks missing *)

\* landmark indices a hand of the model may carry: the five stable ones and
\* one that getHandCenter does not read
LandmarkIndices == {0, 1, 5, 9, 13, 17}
LandmarkPoints == {[x |-> Px(100), y |-> Px(100)], [x |-> Px(131), y |-> Px(72)]}
PartialHands ==
    {[keypoints |-> k] :
        k \in UNION {[S -> LandmarkPoints] : S \in SUBSET LandmarkIndices}}

GetHandCenterCall(hand) ==
    /\ htOp' = "getHandCenter"
    /\ htHands' = <<hand>>
    /\ htPositions' = HandPositions(<<hand>>)
    /\ UNCHANGED <<htFields, htRet, htPrevActive, htSelected, htGap, htCalls>>
    /\ UNCHANGED notTracker

NextCenter == \E hand \in PartialHands : GetHandCenterCall(hand)

SpecCenter == Init /\ [][NextCenter]_vars

----------------------------------------------------------------------------
(* Bird (bird.js).  speed arguments are in hundredths: 100 is the default 1 *)

\* variant: the velocity is not capped
BirdUpdatedUncapped(b, sp) ==
    LET v  == b.velocity + RoundDiv(GRAVITY * sp, 100)
        tr == Min(Max(v * 4, -Px(25)), Px(90))
        ft == b.flapTimer + 1
        ff == b.flapFrame + 1
    IN  [b EXCEPT
            !.velocity = v,
            !.y = b.y + RoundDiv(v * sp, 100),
            !.rotation = b.rotation + RoundDiv(tr - b.rotation, 10),
            !.flapTimer = IF b.isFlapping THEN (IF ft > 3 THEN 0 ELSE ft) ELSE @,
            !.flapFrame = IF b.isFlapping /\ ft > 3
                          THEN (IF ff > 2 THEN 0 ELSE ff)
                          ELSE @,
            !.isFlapping = IF b.isFlapping /\ ft > 3 /\ ff > 2 THEN FALSE ELSE @]

\* Bird.update(speed) on a bird b: gravity, the velocity cap, the move, the
\* rotation towards min(max(velocity * 4, -25), 90) and the flap animation
BirdUpdated(b, sp) ==
    LET v  == Min(b.velocity + RoundDiv(GRAVITY * sp, 100), TERMINAL_VELOCITY)
        tr == Min(Max(v * 4, -Px(25)), Px(90))
        ft == b.flapTimer + 1
        ff == b.flapFrame + 1
    IN  [b EXCEPT
            !.velocity = v,
            !.y = b.y + RoundDiv(v * sp, 100),
            !.rotation = b.rotation + RoundDiv(tr - b.rotation, 10),
            !.flapTimer = IF b.isFlapping THEN (IF ft > 3 THEN 0 ELSE ft) ELSE @,
            !.flapFrame = IF b.isFlapping /\ ft > 3
                          THEN (IF ff > 2 THEN 0 ELSE ff)
                          ELSE @,
            !.isFlapping = IF b.isFlapping /\ ft > 3 /\ ff > 2 THEN FALSE ELSE @]

\* Bird.jump()
BirdJumped(b) ==
    [b EXCEPT !.velocity = JUMP_VELOCITY, !.isFlapping = TRUE,
              !.flapFrame = 0, !.flapTimer = 0]

\* Bird.reset(x, y); flapTimer is not assigned
BirdReset(b, x, y) ==
    [b EXCEPT !.x = x, !.y = y, !.velocity = 0, !.rotation = 0,
              !.flapFrame = 0, !.isFlapping = FALSE]

\* the bird of the game as one record, and the assignment of its fields
TheBird ==
    [x |-> birdX, y |-> birdY, velocity |-> birdVelocity,
     rotation |-> birdRotation, flapFrame |-> flapFrame,
     flapTimer |-> flapTimer, isFlapping |-> isFlapping]

SetBird(b) ==
    /\ birdX' = b.x
    /\ birdY' = b.y
    /\ birdVelocity' = b.velocity
    /\ birdRotation' = b.rotation
    /\ flapFrame' = b.flapFrame
    /\ flapTimer' = b.flapTimer
    /\ isFlapping' = b.isFlapping

----------------------------------------------------------------------------
(* PipeManager (pipes.js) *)

\* pipe.x -= PIPE_SPEED * speed for every pipe, then the filter
\* pipe.x > -PIPE_WIDTH
MovePipes(ps, sp) ==
    LET moved == [i \in 1..Len(ps) |->
                     [ps[i] EXCEPT !.x = @ - RoundDiv(PIPE_SPEED * sp, 100)]]
    IN  SelectSeq(moved, LAMBDA q : q.x > -Px(PIPE_WIDTH))

\* the pipe pushed by spawnPipe(gap); r is Math.random() in hundredths
NewPipe(id, g, r) ==
    LET playableHeight == CanvasHeight - GROUND_HEIGHT
        minY == Px(SpawnMargin)
        maxY == Px(playableHeight - g - SpawnMargin)
        gapY == RoundDiv(r * (maxY - minY), 100) + minY
    IN  [id |-> id, x |-> Px(CanvasWidth), gapTop |-> gapY,
         gapBottom |-> gapY + Px(g), scored |-> FALSE]

\* PipeManager.update(speed, gap): the new pipes, spawnTimer and count of
\* pipes spawned
PipesUpdated(ps, timer, spawned, sp, g, r) ==
    LET moved == MovePipes(ps, sp)
        t == timer + sp
    IN  IF t >= spawnInterval
        THEN [pipes |-> Append(moved, NewPipe(spawned + 1, g, r)),
              spawnTimer |-> 0, pipesSpawned |-> spawned + 1]
        ELSE [pipes |-> moved, spawnTimer |-> t, pipesSpawned |-> spawned]

\* variant: a pipe behind the bird is marked whatever its flag
PassedMarksAgain(q, bx) == bx > q.x + Px(PIPE_WIDTH)

\* !pipe.scored && bird.x > pipe.x + PIPE_WIDTH
Passed(q, bx) == ~q.scored /\ bx > q.x + Px(PIPE_WIDTH)

\* PipeManager.checkScore(bird): the pipes with their flags, and the result
CheckScored(ps, bx) ==
    [pipes  |-> [i \in 1..Len(ps) |->
                    IF Passed(ps[i], bx)
                    THEN [ps[i] EXCEPT !.scored = TRUE]
                    ELSE ps[i]],
     scored |-> \E i \in 1..Len(ps) : Passed(ps[i], bx)]

\* PipeManager.checkCollision(bird), on the bounds of the bird
CheckCollision(ps, b) ==
    \E i \in 1..Len(ps) :
        /\ b.x + Px(BirdRadius) > ps[i].x
        /\ b.x - Px(BirdRadius) < ps[i].x + Px(PIPE_WIDTH)
        /\ \/ b.y - Px(BirdRadius) < ps[i].gapTop
           \/ b.y + Px(BirdRadius) > ps[i].gapBottom

----------------------------------------------------------------------------
(* Game (game.js).  The background offsets, which only the renderer reads, *)
(* are left out.                                                           *)

\* variant: the speed is not capped
DifficultyUncapped(sc) ==
    [speed |-> StartSpeed + speedIncrement * sc,
     gap   |-> Max(StartGap - gapDecrement * sc, minGap)]

\* updateDifficulty(): speed and gap for a score
Difficulty(sc) ==
    [speed |-> Min(StartSpeed + speedIncrement * sc, maxSpeed),
     gap   |-> Max(StartGap - gapDecrement * sc, minGap)]

\* variant: the score is kept
ResetFieldsKeepsScore ==
    /\ SetBird(BirdReset(TheBird, Px(BirdStartX), Px(CanvasHeight) \div 2))
    /\ pipes' = <<>>
    /\ spawnTimer' = 0
    /\ score' = score
    /\ frozen' = TRUE
    /\ speed' = StartSpeed
    /\ gap' = StartGap

\* reset(): what it assigns
ResetFields ==
    /\ SetBird(BirdReset(TheBird, Px(BirdStartX), Px(CanvasHeight) \div 2))
    /\ pipes' = <<>>
    /\ spawnTimer' = 0
    /\ score' = 0
    /\ frozen' = TRUE
    /\ speed' = StartSpeed
    /\ gap' = StartGap

\* start(): what it assigns
StartFields ==
    IF gameState \in {"menu", "gameover"}
    THEN /\ ResetFields
         /\ gameState' = "ready"
         /\ rounds' = rounds + 1
    ELSE UNCHANGED <<birdFields, pipeFields, score, frozen, speed, gap,
                     gameState, rounds>>

\* variant: a restart is allowed as soon as the game is over
CanRestartAtOnce == now - gameOverTime >= 0

\* canRestartFromGameOver()
CanRestartFromGameOver == now - gameOverTime >= Ms(restartCooldown)

\* Game.start()
Start ==
    /\ StartFields
    /\ gameOp' = "start"
    /\ gameRet' = "undefined"
    /\ UNCHANGED <<highScore, storedHighScore, gameOverTime, speedArg,
                   pipesSpawned, gameCalls, notGame>>

\* Game.reset()
GameReset ==
    /\ ResetFields
    /\ gameOp' = "reset"
    /\ gameRet' = "undefined"
    /\ gameCalls' = gameCalls + 1
    /\ UNCHANGED <<gameState, highScore, storedHighScore, gameOverTime,
                   speedArg, pipesSpawned, rounds, notGame>>

\* Game.jump(): what it does to the game
JumpFields ==
    /\ gameOp' = "jump"
    /\ CASE gameState = "playing" ->
              /\ SetBird(BirdJumped(TheBird))
              /\ gameRet' = "true"
              /\ UNCHANGED <<pipeFields, score, frozen, speed, gap, gameState,
                             rounds>>
         [] gameState = "ready" ->
              /\ frozen' = FALSE
              /\ gameState' = "playing"
              /\ SetBird(BirdJumped(TheBird))
              /\ gameRet' = "true"
              /\ UNCHANGED <<pipeFields, score, speed, gap, rounds>>
         [] gameState = "menu" ->
              /\ StartFields
              /\ gameRet' = "true"
         [] gameState = "gameover" /\ CanRestartFromGameOver ->
              /\ StartFields
              /\ gameRet' = "true"
         [] OTHER ->
              /\ gameRet' = "false"
              /\ UNCHANGED <<birdFields, pipeFields, score, frozen, speed, gap,
                             gameState, rounds>>
    /\ UNCHANGED <<highScore, storedHighScore, gameOverTime, speedArg,
                   pipesSpawned, gameCalls>>

\* Game.jump()
Jump == JumpFields /\ UNCHANGED notGame

\* variant: the score of the round is saved whatever the high score
SaveHighScoreAlways == [highScore |-> score, stored |-> score]

\* saveHighScore(): the new highScore and the new stored item
SaveHighScore ==
    IF score > highScore
    THEN [highScore |-> score, stored |-> score]
    ELSE [highScore |-> highScore, stored |-> storedHighScore]

\* Math.random(), in hundredths, as spawnPipe draws it
RandomFractions == {50}

\* Game.update(deltaTime): what it does to the game
GameUpdateFields(deltaTime) ==
    /\ gameOp' = "update"
    /\ IF gameState \notin {"playing", "ready"} \/ frozen
       THEN /\ gameRet' = "undefined"
            /\ UNCHANGED <<gameFields, birdFields, pipeFields, speedArg,
                           pipesSpawned>>
       ELSE \E dt \in {RoundDiv(deltaTime * speed, FrameTime)} :
            \E b \in {BirdUpdated(TheBird, dt)} :
            \E r \in RandomFractions :
            \E pu \in {PipesUpdated(pipes, spawnTimer, pipesSpawned, dt, gap, r)} :
            \E cs \in {CheckScored(pu.pipes, b.x)} :
                /\ SetBird(b)
                /\ speedArg' = dt
                /\ pipes' = cs.pipes
                /\ spawnTimer' = pu.spawnTimer
                /\ pipesSpawned' = pu.pipesSpawned
                /\ frozen' = frozen
                /\ IF cs.scored
                   THEN /\ score' = score + 1
                        /\ speed' = Difficulty(score + 1).speed
                        /\ gap' = Difficulty(score + 1).gap
                        /\ gameRet' = "score"
                        /\ UNCHANGED <<gameState, highScore, storedHighScore,
                                       gameOverTime>>
                   ELSE IF \/ b.y < Px(BirdRadius)
                           \/ b.y > Px(CanvasHeight - GROUND_HEIGHT - BirdRadius)
                           \/ CheckCollision(cs.pipes, b)
                   THEN \* gameOver(), with saveHighScore()
                        /\ gameState' = "gameover"
                        /\ gameOverTime' = now
                        /\ highScore' = SaveHighScore.highScore
                        /\ storedHighScore' = SaveHighScore.stored
                        /\ gameRet' = "hit"
                        /\ UNCHANGED <<score, speed, gap>>
                   ELSE /\ gameRet' = "null"
                        /\ UNCHANGED <<gameState, score, highScore,
                                       storedHighScore, speed, gap,
                                       gameOverTime>>
    /\ UNCHANGED <<gameCalls, rounds>>

\* Game.update(deltaTime)
GameUpdate(deltaTime) == GameUpdateFields(deltaTime) /\ UNCHANGED notGame

\* One player's rounds: the player pumps when the falling bird is below the
\* pump line, until MaxScore pipes are scored, and then lets the bird fall.
MaxScore == 12
MaxRounds == 2
MaxResets == 1
PumpLine == 440

PlayerPumps ==
    \/ gameState = "ready"
    \/ /\ gameState = "playing"
       /\ birdVelocity >= 0
       /\ birdY > Px(PumpLine)
       /\ score < MaxScore

RoundStart ==
    /\ rounds < MaxRounds
    /\ gameState \in {"menu", "gameover"}
    /\ Start

RoundJump ==
    /\ \/ PlayerPumps
       \/ gameState \in {"menu", "gameover"} /\ rounds < MaxRounds
    /\ Jump

RoundFrame ==
    /\ gameState = "playing" => ~PlayerPumps
    /\ GameUpdate(FrameTime)

\* the restart cooldown passes after a game over
TimePasses ==
    /\ gameState = "gameover"
    /\ ~CanRestartFromGameOver
    /\ now' = now + Ms(restartCooldown)
    /\ UNCHANGED <<mdFields, mdConfig, mdObs, htVars, gameVars, loopVars>>

\* reset() called on a game that has just reached full speed
RoundReset ==
    /\ gameCalls < MaxResets
    /\ gameRet = "score"
    /\ speed = maxSpeed
    /\ GameReset

NextRound ==
    \/ RoundStart
    \/ RoundReset
    \/ RoundJump
    \/ RoundFrame
    \/ TimePasses

SpecRound == Init /\ [][NextRound]_vars

----------------------------------------------------------------------------
(* Rounds of different scores: the player of round r pumps until Target(r) *)
(* pipes are scored, and then lets the bird fall.                          *)

MaxScoreRounds == 4
RoundTargets == <<2, 1, 2, 3>>

Target(r) == IF r \in DOMAIN RoundTargets THEN RoundTargets[r] ELSE 1

ScorePumps ==
    \/ gameState = "ready"
    \/ /\ gameState = "playing"
       /\ birdVelocity >= 0
       /\ birdY > Px(PumpLine)
       /\ score < Target(rounds)

ScoreStart ==
    /\ rounds < MaxScoreRounds
    /\ gameState \in {"menu", "gameover"}
    /\ Start

ScoreJump ==
    /\ \/ ScorePumps
       \/ gameState \in {"menu", "gameover"} /\ rounds < MaxScoreRounds
    /\ Jump

ScoreFrame ==
    /\ gameState = "playing" => ~ScorePumps
    /\ GameUpdate(FrameTime)

NextScores ==
    \/ ScoreStart
    \/ ScoreJump
    \/ ScoreFrame
    \/ TimePasses

SpecScores == Init /\ [][NextScores]_vars

----------------------------------------------------------------------------
(* PipeManager and Bird called by themselves, as the tests call them *)

\* direct calls in one run
MaxPipeCalls == 12
MaxBirdCalls == 5

\* new Bird(x, y), before any other call
NewBird(x, y) ==
    /\ gameOp = "init"
    /\ SetBird([x |-> x, y |-> y, velocity |-> 0, rotation |-> 0,
                flapFrame |-> 0, flapTimer |-> 0, isFlapping |-> FALSE])
    /\ gameOp' = "newBird"
    /\ UNCHANGED <<gameFields, pipeFields, gameRet, speedArg, pipesSpawned,
                   gameCalls, rounds, notGame>>

\* pipes.update(speed, gap)
PipesUpdateCall(sp, g) ==
    \E r \in RandomFractions :
    \E pu \in {PipesUpdated(pipes, spawnTimer, pipesSpawned, sp, g, r)} :
        /\ pipes' = pu.pipes
        /\ spawnTimer' = pu.spawnTimer
        /\ pipesSpawned' = pu.pipesSpawned
        /\ gameOp' = "pipesUpdate"
        /\ gameRet' = "undefined"
        /\ gameCalls' = gameCalls + 1
        /\ UNCHANGED <<gameFields, birdFields, speedArg, rounds, notGame>>

\* pipes.checkScore(bird)
CheckScoreCall ==
    \E cs \in {CheckScored(pipes, birdX)} :
        /\ pipes' = cs.pipes
        /\ gameOp' = "checkScore"
        /\ gameRet' = IF cs.scored THEN "true" ELSE "false"
        /\ gameCalls' = gameCalls + 1
        /\ UNCHANGED <<gameFields, birdFields, spawnTimer, speedArg,
                       pipesSpawned, rounds, notGame>>

\* where the tests put the bird, and how fast they move the pipes
PipeBirdXs == {80, 300}
PipeSpeeds == {1000, 3000}

NextPipes ==
    \/ \E x \in PipeBirdXs : NewBird(Px(x), Px(250))
    \/ /\ gameCalls < MaxPipeCalls
       /\ \E sp \in PipeSpeeds : PipesUpdateCall(sp, PIPE_GAP_MIN)
    \/ /\ gameCalls < MaxPipeCalls
       /\ CheckScoreCall

SpecPipes == Init /\ [][NextPipes]_vars

\* bird.update(speed)
BirdUpdateCall(sp) ==
    /\ SetBird(BirdUpdated(TheBird, sp))
    /\ speedArg' = sp
    /\ gameOp' = "birdUpdate"
    /\ gameRet' = "undefined"
    /\ gameCalls' = gameCalls + 1
    /\ UNCHANGED <<gameFields, pipeFields, pipesSpawned, rounds, notGame>>

\* bird.jump()
BirdJumpCall ==
    /\ SetBird(BirdJumped(TheBird))
    /\ gameOp' = "birdJump"
    /\ gameRet' = "undefined"
    /\ gameCalls' = gameCalls + 1
    /\ UNCHANGED <<gameFields, pipeFields, speedArg, pipesSpawned, rounds,
                   notGame>>

\* bird.velocity = v, as the tests assign it
SetVelocityCall(v) ==
    /\ birdVelocity' = v
    /\ gameOp' = "setVelocity"
    /\ gameRet' = "undefined"
    /\ gameCalls' = gameCalls + 1
    /\ UNCHANGED <<birdX, birdY, birdRotation, flapFrame, flapTimer, isFlapping,
                   gameFields, pipeFields, speedArg, pipesSpawned, rounds,
                   notGame>>

\* speed arguments: 0, 0.5, the default 1, 3, 20 and 25; velocities assigned
BirdSpeeds == {0, 50, 100, 300, 2000, 2500}
BirdVelocities == {500, 1000, 10000}

NextBird ==
    \/ NewBird(Px(100), Px(300))
    \/ /\ gameCalls < MaxBirdCalls
       /\ \E sp \in BirdSpeeds : BirdUpdateCall(sp)
    \/ /\ gameCalls < MaxBirdCalls
       /\ BirdJumpCall
    \/ /\ gameCalls < MaxBirdCalls
       /\ \E v \in BirdVelocities : SetVelocityCall(v)

SpecBird == Init /\ [][NextBird]_vars

----------------------------------------------------------------------------
(* The tracking pipeline of main.js: processHandTracking on the main thread *)

\* getWristPosition(): Some([x, y]) or Null
GetWristPosition(lhc, lh) ==
    IF lhc # Null
    THEN lhc
    ELSE IF lh = Null THEN Null ELSE GetHandCenter(Val(lh))

\* ticks of the pipeline in one run
MaxTicks == 12
\* the detection interval of 33 ms lets every second frame through
DetectionFrames == 2
\* two hands in view, one of them a step higher than the other
PipelineLists == {<<MockHand(100, y), MockHand(300, 210 - y)>> : y \in HandYs}

\* processHandTracking() after detect() has resolved to the hand htRet': the
\* position of that hand goes to update(), and a jump to handleJump()
AfterDetect(dt) ==
    \E position \in {IF htRet' = Null
                     THEN Null
                     ELSE GetWristPosition(lastHandCenter', lastHand')} :
        IF position # Null
        THEN /\ UpdateFields(Val(position).y, dt)
             /\ IF ret' THEN JumpFields ELSE UNCHANGED gameVars
        ELSE /\ now' = now + dt
             /\ UNCHANGED <<mdFields, mdConfig, mdObs, gameVars>>

\* processHandTracking(): detect() on the main thread returned for the
\* detection list hands
ProcessHandTracking(hands, dt) ==
    /\ HandleHandsFields(hands, "detect")
    /\ AfterDetect(dt)

PipelineTick ==
    /\ htCalls < MaxTicks
    /\ \E hands \in PipelineLists :
           ProcessHandTracking(hands, DetectionFrames * FrameTime)
    /\ UNCHANGED loopVars

NextPipeline == PipelineTick

SpecPipeline == Init /\ [][NextPipeline]_vars

----------------------------------------------------------------------------
(* The detection loop: gameLoop issues detect() through processHandTracking, *)
(* on the main thread or with the worker                                     *)

\* requests posted to the worker and not yet answered
MaxPending == 2
\* calls of processHandResult with a hand, and consecutive empty results
MaxLoopCalls == 11
MaxEmptyRun == 10
\* the same calls on the main thread
MaxMainCalls == 3

\* what the detector reports for one frame
LoopHands == {<<>>, <<MockHand(100, 100)>>}

\* init(): the worker could not be initialised, detection falls back to the
\* main thread
InitWorkerFails ==
    /\ htOp = "init" /\ gameOp = "init"
    /\ useWorker /\ ~detectionInProgress
    /\ useWorker' = FALSE
    /\ UNCHANGED <<detectionInProgress, detectPhase, pending, emptyRun,
                   mdVars, htVars, gameVars>>

\* gameLoop(timestamp): a frame that starts processHandTracking(), which
\* runs up to the first await of detect(), and then updates the game
LoopFrameDetects ==
    /\ ~detectionInProgress
    /\ useWorker => pending < MaxPending
    /\ detectionInProgress' = TRUE
    /\ detectPhase' = IF useWorker THEN "awaitBitmap" ELSE "awaitEstimate"
    /\ pending' = IF useWorker THEN pending ELSE pending + 1
    /\ GameUpdateFields(FrameTime)
    /\ UNCHANGED <<useWorker, emptyRun, mdVars, htVars>>

\* gameLoop(timestamp): a frame within the detection interval, or with a
\* detection in progress
LoopFrameSkips ==
    /\ GameUpdateFields(FrameTime)
    /\ UNCHANGED <<loopVars, mdVars, htVars>>

\* detectWithWorker() after createImageBitmap: the frame is posted to the
\* worker and the last known hand is processed as the result of detect();
\* processHandTracking() runs to its end
DetectWithWorker ==
    /\ detectPhase = "awaitBitmap"
    /\ htCalls < MaxLoopCalls
    /\ pending' = pending + 1
    /\ HandleHandsFields(IF lastHand # Null THEN <<Val(lastHand)>> ELSE <<>>,
                         "detectWithWorker")
    /\ AfterDetect(DetectionFrames * FrameTime)
    /\ detectionInProgress' = FALSE
    /\ detectPhase' = "idle"
    /\ UNCHANGED <<useWorker, emptyRun>>

\* worker.onmessage with type 'result': onDetectionResult(hands) calls
\* processHandResult(hands || []); the worker answers each request once
WorkerResult(hands) ==
    /\ useWorker
    /\ pending > 0
    /\ htCalls < MaxLoopCalls
    /\ hands = <<>> => emptyRun < MaxEmptyRun
    /\ pending' = pending - 1
    /\ HandleHandsFields(hands, "onDetectionResult")
    /\ emptyRun' = IF hands = <<>> THEN emptyRun + 1 ELSE 0
    /\ UNCHANGED <<useWorker, detectionInProgress, detectPhase, mdVars,
                   gameVars>>

\* detect() on the main thread after estimateHands has resolved;
\* processHandTracking() runs to its end
EstimateDone(hands) ==
    /\ detectPhase = "awaitEstimate"
    /\ htCalls < MaxMainCalls
    /\ hands = <<>> => emptyRun < MaxEmptyRun
    /\ ProcessHandTracking(hands, DetectionFrames * FrameTime)
    /\ pending' = pending - 1
    /\ emptyRun' = IF hands = <<>> THEN emptyRun + 1 ELSE 0
    /\ detectionInProgress' = FALSE
    /\ detectPhase' = "idle"
    /\ UNCHANGED useWorker

NextLoop ==
    \/ InitWorkerFails
    \/ LoopFrameDetects
    \/ LoopFrameSkips
    \/ DetectWithWorker
    \/ \E hands \in LoopHands : WorkerResult(hands)
    \/ \E hands \in LoopHands : EstimateDone(hands)

SpecLoop == Init /\ [][NextLoop]_vars

----------------------------------------------------------------------------
(* Claims about the MotionDetector *)

TrueCalls(h) == {i \in DOMAIN h : h[i].ret}
CooldownExit(e) == e.from = "cooldown" /\ e.to = "idle"

\* C1: with no reset in between, update never returns true twice unless some
\* call between the two moved the state from 'cooldown' back to 'idle'.
C1_OneJumpPerCooldownExit ==
    \A i \in DOMAIN hist : \A j \in DOMAIN hist :
        (i < j /\ hist[i].ret /\ hist[j].ret)
            => \E k \in (i + 1)..(j - 1) : CooldownExit(hist[k])

\* two jumps were returned since the last reset
C1_Witness == Cardinality(TrueCalls(hist)) >= 2

\* strictly decreasing y at a constant interval, every computed velocity
\* (from the second call on) below -jumpThreshold
FastUpward(h) ==
    \A i \in 2..Len(h) :
        /\ h[i].y < h[i - 1].y
        /\ h[i].dt = h[2].dt
        /\ h[i].v < -Px(jumpThreshold)

\* C2: a fresh or reset detector fed sustained fast upward motion returns
\* true exactly once (on the third call), and false on every later call.
C2_SustainedUpwardJumpsOnce ==
    FastUpward(hist) =>
        /\ Cardinality(TrueCalls(hist)) <= 1
        /\ Len(hist) >= Max(requiredUpwardFrames, 2) + 1
               => Cardinality(TrueCalls(hist)) = 1

\* the upward motion went on after the jump until the timer had run out
C2_Witness ==
    /\ FastUpward(hist)
    /\ Len(hist) >= 6
    /\ hist[3].ret
    /\ cooldownTimer = 0

\* C3: two calls that return true are at least cooldownFrames
\* position-carrying calls apart.
C3_JumpsCooldownFramesApart ==
    \A i \in DOMAIN hist : \A j \in DOMAIN hist :
        (i < j /\ hist[i].ret /\ hist[j].ret) => j - i >= cooldownFrames

\* after a jump the hand went down, pumped up again and jumped again
C3_Witness ==
    \E i \in DOMAIN hist : \E j \in DOMAIN hist :
        /\ i < j /\ hist[i].ret /\ hist[j].ret
        /\ \E k \in (i + 1)..(j - 1) : hist[k].y > hist[k - 1].y

Increasing(h) == \A i \in 2..Len(h) : h[i].y > h[i - 1].y

\* C4: a fresh detector fed strictly increasing y, with any positive tick
\* intervals, returns false on every call.
C4_DownwardNeverJumps ==
    Increasing(hist) => \A i \in DOMAIN hist : ~hist[i].ret

\* five samples of downward motion at differing intervals
C4_Witness ==
    /\ Increasing(hist)
    /\ Len(hist) >= 5
    /\ \E i \in 2..Len(hist) : hist[i].dt # hist[2].dt
    /\ \A i \in DOMAIN hist : hist[i].dt > 0

\* C5: update(null) and update(undefined) return false and leave every
\* field of the detector unchanged.
C5_UpdateNoneChangesNothing ==
    [][lastOp' = "updateNone" => (ret' = FALSE /\ UNCHANGED <<mdFields, mdConfig>>)]_vars

\* a tick without a position in the middle of a cooldown
C5_Witness ==
    /\ lastOp = "updateNone"
    /\ state = "cooldown"
    /\ cooldownTimer > 0
    /\ Len(positions) >= 3

ScenarioSeq == <<200, 170, 140, 100, 60>>
ScenarioReturns == <<FALSE, FALSE, FALSE, TRUE, FALSE>>
ScenarioFed(n) ==
    /\ Len(hist) >= n
    /\ \A i \in 1..n : hist[i].y = Px(ScenarioSeq[i]) /\ hist[i].dt = FrameTime

\* C6: a fresh detector with its default configuration fed 200, 170, 140, 100
\* one frame apart returns false, false, false, true, and a fifth call with
\* y = 60 returns false.
C6_ScenarioReturns ==
    \A n \in 1..5 :
        (ScenarioFed(n) /\ jumpThreshold = DefaultJumpThreshold
                        /\ cooldownFrames = DefaultCooldownFrames
                        /\ requiredUpwardFrames = DefaultRequiredUpwardFrames)
            => hist[n].ret = ScenarioReturns[n]

\* C7: after reset() every state field equals that of a new detector.
C7_ResetRestoresFresh ==
    lastOp = "reset" =>
        /\ state = "idle"
        /\ positions = <<>>
        /\ velocityHistory = <<>>
        /\ cooldownTimer = 0
        /\ upwardFrames = 0
        /\ smoothedY = Null
        /\ currentVelocity = 0
        /\ peakVelocity = 0
        /\ rawY = 0

\* the newest entry of hist: the update call made last
LastCall == hist[Len(hist)]

\* the state leaves 'cooldown' only for 'idle', in an update call whose
\* computed velocity is above +3, or by reset()
LeavesCooldownByVelocity ==
    (state = "cooldown" /\ state' # "cooldown") =>
        \/ lastOp' = "reset" /\ state' = "idle"
        \/ /\ lastOp' = "update"
           /\ state' = "idle"
           /\ LastCall'.v > Px(ExitThreshold)

\* from the call i that entered 'cooldown' on, the hand moved up or stayed
\* still: every later y is at most the y before it
HeldSince(h, i) == \A k \in (i + 1)..Len(h) : h[k].y <= h[k - 1].y

\* C23: the state changes from 'cooldown' to 'idle' only in an update call
\* whose computed velocity is above +3 (or by reset()), the timer reaching 0
\* never by itself leaves 'cooldown', and while the hand keeps moving up or
\* stays still the state remains 'cooldown'.
C23_CooldownUntilHandMovesDown ==
    /\ [][LeavesCooldownByVelocity]_vars
    /\ [](\A i \in DOMAIN hist :
             (hist[i].ret /\ HeldSince(hist, i)) =>
                 \A k \in (i + 1)..Len(hist) : hist[k].to = "cooldown")

\* C23 as amended: the state changes from 'cooldown' to 'idle' only in an
\* update call whose computed velocity is above +3 (or by reset()), and an
\* update call in 'cooldown' whose computed velocity is at most +3 stays in
\* 'cooldown' whatever the timer; the velocity is that of the smoothed
\* positions.
C23_CooldownUntilVelocityAboveExit ==
    /\ [][LeavesCooldownByVelocity]_vars
    /\ [](\A k \in DOMAIN hist :
             hist[k].from = "cooldown" =>
                 /\ ~hist[k].ret
                 /\ hist[k].to = IF hist[k].v > Px(ExitThreshold)
                                 THEN "idle"
                                 ELSE "cooldown")

\* the timer has run out, the hand was held or moved up since the jump and
\* the state is still 'cooldown'
C23_Witness ==
    /\ state = "cooldown"
    /\ cooldownTimer = 0
    /\ lastOp = "update"
    /\ \E i \in DOMAIN hist :
           /\ hist[i].ret
           /\ Len(hist) >= i + 2
           /\ HeldSince(hist, i)
           /\ hist[Len(hist)].y = hist[Len(hist) - 1].y

\* an update call with a position has just been made
Updated == lastOp' = "update" /\ calls' # calls

\* C24: update returns true if and only if that call moves the state into
\* 'cooldown'; right after such a call state = 'cooldown' and cooldownTimer =
\* cooldownFrames, and no call that returns false enters 'cooldown'.
C24_TrueIffEntersCooldown ==
    [][Updated =>
          /\ ret' <=> (state # "cooldown" /\ state' = "cooldown")
          /\ ret' => (state' = "cooldown" /\ cooldownTimer' = cooldownFrames)
          /\ ret' = LastCall'.ret
      ]_vars

\* the second jump of a run, with the configured cooldown of 3 calls
C24_Witness ==
    /\ lastOp = "update"
    /\ ret
    /\ state = "cooldown"
    /\ cooldownFrames = 3
    /\ cooldownTimer = 3
    /\ Cardinality(TrueCalls(hist)) = 2

\* no call before call i of h returned true: the timer is 0 when call i starts
NoJumpBefore(h, i) == \A k \in 1..(i - 1) : ~h[k].ret

\* calls i .. j of h all computed a velocity below -jumpThreshold
Qualifying(h, i, j) == \A k \in i..j : h[k].v < -Px(jumpThreshold)

\* C25: for every requiredUpwardFrames N >= 1, from 'idle' with cooldownTimer
\* 0, N consecutive calls whose velocity is below -jumpThreshold make update
\* return true on the N-th of them and not earlier; with N = 1 a single such
\* call triggers the jump.
C25_JumpOnNthQualifyingTick ==
    \A i \in DOMAIN hist :
        \E n \in {i + requiredUpwardFrames - 1} :
            (/\ hist[i].from = "idle"
             /\ NoJumpBefore(hist, i)
             /\ n <= Len(hist)
             /\ Qualifying(hist, i, n))
                => /\ hist[n].ret
                   /\ \A k \in i..(n - 1) : ~hist[k].ret

\* C26: from 'idle' a call with velocity below -5 enters 'moving_up' with
\* upwardFrames = 1; in 'moving_up' a call whose velocity is not below -5
\* returns the state to 'idle' with upwardFrames = 0 and returns false, so an
\* interrupted upward motion starts its confirmation count again.
C26_InterruptedMotionRestartsCount ==
    [][Updated =>
          /\ (state = "idle" /\ LastCall'.v < -Px(OnsetThreshold)) =>
                 (state' = "moving_up" /\ upwardFrames' = 1)
          /\ (state = "moving_up" /\ LastCall'.v >= -Px(OnsetThreshold)) =>
                 (state' = "idle" /\ upwardFrames' = 0 /\ ~ret')
      ]_vars

\* an upward motion was confirmed for two calls, was interrupted, and has
\* started again with a count of 1
C26_Witness ==
    /\ state = "moving_up"
    /\ upwardFrames = 1
    /\ requiredUpwardFrames = 2
    /\ \E i \in DOMAIN hist :
           /\ i + 2 < Len(hist)
           /\ hist[i].to = "moving_up"
           /\ hist[i + 1].from = "moving_up" /\ hist[i + 1].to = "moving_up"
           /\ \E k \in (i + 2)..(Len(hist) - 1) :
                  hist[k].from = "moving_up" /\ hist[k].to = "idle"

----------------------------------------------------------------------------
(* Claims about the HandTracker *)

HandsProcessed == htOp \in {"processHandResult", "detect"}
HistoriesUpdated ==
    \/ htOp = "updateHandHistories"
    \/ HandsProcessed /\ htHands # <<>>

\* C8: after a detection with at least one hand, the k-th consecutive empty
\* detection list returns the last valid hand for k = 1 .. maxLostFrames and
\* null for every k > maxLostFrames.
C8_PersistenceWindow ==
    (HandsProcessed /\ htHands = <<>> /\ htSelected # Null) =>
        IF htGap <= maxLostFrames
        THEN htRet = htSelected
        ELSE htRet = Null

\* the empty list after the last one of the window
C8_Witness ==
    /\ HandsProcessed /\ htHands = <<>> /\ htSelected # Null
    /\ htGap = maxLostFrames + 1
    /\ htRet = Null

\* n * n times the variance of the last five samples of a history (0 with
\* fewer than three samples), and n: the variance as an exact fraction
VarianceTimesNN(history) ==
    IF Len(history) < 3
    THEN 0
    ELSE LET recent == LastN(history, 5)
             d == [i \in 1..Len(recent) |-> recent[i] - recent[1]]
             sum == SeqSum(d)
             sumSq == SeqSum([i \in 1..Len(recent) |-> d[i] * d[i]])
         IN  Len(recent) * sumSq - sum * sum
SampleCount(history) == Min(Len(history), 5)

\* variance(b) > 1.5 * variance(a), b and a slots of the code (0 or 1)
ExceedsByHalf(b, a) ==
    LET hb == handHistories[b + 1]
        ha == handHistories[a + 1]
    IN  2 * VarianceTimesNN(hb) * SampleCount(ha) * SampleCount(ha)
          > 3 * VarianceTimesNN(ha) * SampleCount(hb) * SampleCount(hb)
ExactlyByHalf(b, a) ==
    LET hb == handHistories[b + 1]
        ha == handHistories[a + 1]
    IN  /\ VarianceTimesNN(ha) > 0
        /\ 2 * VarianceTimesNN(hb) * SampleCount(ha) * SampleCount(ha)
             = 3 * VarianceTimesNN(ha) * SampleCount(hb) * SampleCount(hb)

\* C9: with two hands and activeHandIndex = a in {0, 1}, selectActiveHand
\* switches to the other slot b exactly when variance(b) > 1.5 * variance(a);
\* a variance of exactly 1.5 times keeps a.
C9_SwitchOnlyAboveOneAndAHalf ==
    (HandsProcessed /\ Len(htHands) = 2 /\ htPrevActive \in {0, 1}) =>
        /\ activeHandIndex \in {0, 1}
        /\ activeHandIndex = 1 - htPrevActive
               <=> ExceedsByHalf(1 - htPrevActive, htPrevActive)

\* the other hand moved exactly 1.5 times as much and the active hand stayed
C9_Witness ==
    /\ HandsProcessed /\ Len(htHands) = 2 /\ htPrevActive \in {0, 1}
    /\ ExactlyByHalf(1 - htPrevActive, htPrevActive)
    /\ activeHandIndex = htPrevActive

\* C10: after updateHandHistories(positions) every slot that received no
\* position in the call has an empty history, and every slot that received
\* one has its y as the newest entry.
C10_NoPositionClearsSlot ==
    HistoriesUpdated =>
        \A i \in 1..2 :
            IF i <= Len(htPositions) /\ htPositions[i] # Null
            THEN /\ handHistories[i] # <<>>
                 /\ handHistories[i][Len(handHistories[i])] = Val(htPositions[i]).y
            ELSE handHistories[i] = <<>>

\* C10 as amended: a slot beyond the end of the list is emptied, a slot whose
\* entry is null keeps its history, and a slot that received a position gets
\* its y appended (the oldest entry dropped beyond historyLength).
C10_MissingSlotCleared ==
    [][HistoriesUpdated' =>
        \A i \in 1..2 :
            IF i > Len(htPositions')
            THEN handHistories'[i] = <<>>
            ELSE IF htPositions'[i] = Null
                 THEN handHistories'[i] = handHistories[i]
                 ELSE /\ handHistories'[i][Len(handHistories'[i])]
                            = Val(htPositions'[i]).y
                      /\ Len(handHistories'[i])
                            = Min(Len(handHistories[i]) + 1, historyLength)
                      /\ \A k \in 1..(Len(handHistories'[i]) - 1) :
                            handHistories'[i][k]
                              = handHistories[i][Len(handHistories[i]) + 1
                                                 - Len(handHistories'[i]) + k]
    ]_vars

\* a call whose list holds a null entry for a slot with samples, and no
\* entry at all for the other slot
C10_Witness ==
    /\ htOp = "updateHandHistories"
    /\ Len(htPositions) = 1
    /\ htPositions[1] = Null
    /\ Len(handHistories[1]) >= 2
    /\ handHistories[2] = <<>>


\* C11: after any call in which the detector reported zero hands, both hand
\* histories are empty.
C11_EmptyDetectionClearsHistories ==
    (HandsProcessed /\ htHands = <<>>) => handHistories = <<<<>>, <<>>>>

\* the sequence new is old with e pushed under the cap: e is the newest entry
\* and, when old was full, its oldest entry is gone and the rest keep their order
PushedFIFO(old, new, cap) ==
    /\ new # <<>>
    /\ new = IF Len(old) >= cap
             THEN Append(Tail(old), new[Len(new)])
             ELSE Append(old, new[Len(new)])

\* C12: positions has at most maxPositions entries, velocityHistory at most
\* maxVelocityHistory, each hand history at most historyLength; a sample
\* pushed to a full history drops the oldest entry and keeps the order of the
\* rest.
C12_HistoriesCappedFIFO ==
    /\ [](/\ Len(positions) <= maxPositions
          /\ Len(velocityHistory) <= maxVelocityHistory
          /\ \A i \in 1..2 : Len(handHistories[i]) <= historyLength)
    /\ [][/\ calls' # calls =>
                /\ PushedFIFO(positions, positions', maxPositions)
                /\ Len(positions') >= 2 =>
                       PushedFIFO(velocityHistory, velocityHistory',
                                  maxVelocityHistory)
          /\ (htCalls' # htCalls /\ HandsProcessed') =>
                \A i \in 1..2 :
                    (i <= Len(htPositions') /\ htPositions'[i] # Null) =>
                        PushedFIFO(handHistories[i], handHistories'[i],
                                   historyLength)
       ]_vars

\* every history is full, has been pushed to while full, and the samples of
\* the positions and of a hand history are not all equal
C12_Witness ==
    /\ calls > maxPositions + 1
    /\ Len(positions) = maxPositions
    /\ Len(velocityHistory) = maxVelocityHistory
    /\ Len(handHistories[1]) = historyLength
    /\ Len(handHistories[2]) = historyLength
    /\ handHistories[1][1] # handHistories[1][historyLength]
    /\ positions[1].y # positions[2].y

\* the stable landmarks a hand carries
PresentLandmarks(hand) ==
    {i \in {0, 5, 9, 13, 17} : i \in DOMAIN hand.keypoints}

RECURSIVE CoordinateSum(_, _, _)
\* the sum of coordinate c ("x" or "y") of the landmarks S of a hand
CoordinateSum(hand, S, c) ==
    IF S = {}
    THEN 0
    ELSE LET i == CHOOSE j \in S : TRUE
         IN  hand.keypoints[i][c] + CoordinateSum(hand, S \ {i}, c)

\* m is sum / n to the nearest hundredth
IsMean(m, sum, n) ==
    /\ 2 * (n * m - sum) <= n
    /\ 2 * (sum - n * m) <= n

C14_DetectionBecomesValidHand ==
    (HandsProcessed /\ htHands # <<>>) =>
        /\ lostFrames = 0
        /\ htRet # Null
        /\ lastValidHand = htRet
        /\ \E i \in 1..Len(htHands) :
               /\ lastValidHand = Some(htHands[i])
               /\ lastValidCenter = htPositions[i]

\* of two hands the second one was selected, an earlier call having
\* selected another hand
C14_Witness ==
    /\ HandsProcessed /\ Len(htHands) = 2
    /\ htCalls >= 2
    /\ lastValidHand = Some(htHands[2])
    /\ lastValidCenter = htPositions[2]
    /\ htPositions[2] # htPositions[1]
    /\ lostFrames = 0

\* C21: when a run of consecutive empty detection lists exceeds maxLostFrames,
\* lastValidHand, lastValidCenter, lastHand and lastHandCenter are null after
\* that call.
C21_ExpiryClearsPersistedState ==
    (HandsProcessed /\ htHands = <<>> /\ htGap > maxLostFrames) =>
        /\ lastValidHand = Null
        /\ lastValidCenter = Null
        /\ lastHand = Null
        /\ lastHandCenter = Null

\* C22: a hand returned by processHandResult or detect is one of the hands of
\* the detection list of that call or, for an empty list within the
\* persistence window, the hand selected by the most recent non-empty
\* detection; an empty list yields null outside the window and before the
\* first non-empty detection.
C22_NoFabricatedHand ==
    HandsProcessed =>
        IF htHands # <<>>
        THEN \E i \in 1..Len(htHands) : htRet = Some(htHands[i])
        ELSE IF htSelected # Null /\ htGap <= maxLostFrames
             THEN htRet = htSelected
             ELSE htRet = Null

\* the last empty list of the window returns the second hand of an earlier
\* two-hand detection
C22_Witness ==
    /\ HandsProcessed /\ htHands = <<>>
    /\ htGap = maxLostFrames
    /\ htRet # Null
    /\ htRet = htSelected
    /\ activeHandIndex = 1

\* selectActiveHand has just been called by itself
SelectCalled == htOp = "selectActiveHand"

\* what selectActiveHand returns for slot a (0 or 1) of its arguments
SelectResult(a) ==
    Some([hand |-> htHands[a + 1], center |-> htPositions[a + 1],
          isActive |-> TRUE])

\* C27: selectActiveHand called with exactly one hand returns that hand with
\* its center and isActive = true, and leaves activeHandIndex and both hand
\* histories unchanged.
C27_SingleHandReturnedUnchanged ==
    [][(SelectCalled' /\ Len(htHands') = 1) =>
          /\ htRet' = Some([hand |-> htHands'[1], center |-> htPositions'[1],
                            isActive |-> TRUE])
          /\ UNCHANGED <<activeHandIndex, handHistories>>
      ]_vars

\* one hand given while slot 1 is the active one and both histories hold
\* three samples or more
C27_Witness ==
    /\ SelectCalled
    /\ Len(htHands) = 1
    /\ htPrevActive = 1
    /\ activeHandIndex = 1
    /\ Len(handHistories[1]) >= 3
    /\ Len(handHistories[2]) >= 3
    /\ VarianceTimesNN(handHistories[1]) > 0

\* variance(slot 1) > variance(slot 0), as exact fractions
SecondMovesMore ==
    VarianceTimesNN(handHistories[2])
        * SampleCount(handHistories[1]) * SampleCount(handHistories[1])
      > VarianceTimesNN(handHistories[1])
          * SampleCount(handHistories[2]) * SampleCount(handHistories[2])

\* C28: with two hands and activeHandIndex = -1, selectActiveHand sets
\* activeHandIndex to the slot with the strictly higher variance, to slot 0
\* when the variances are equal, and returns that slot's hand and center.
C28_FirstChoiceIsHigherVariance ==
    ((SelectCalled \/ HandsProcessed) /\ Len(htHands) = 2 /\ htPrevActive = -1) =>
        /\ activeHandIndex = IF SecondMovesMore THEN 1 ELSE 0
        /\ SelectCalled => htRet = SelectResult(activeHandIndex)
        /\ HandsProcessed =>
               /\ htRet = Some(htHands[activeHandIndex + 1])
               /\ lastHandCenter = htPositions[activeHandIndex + 1]

\* slot 1 moved and slot 0 did not: slot 1 is the first active hand
C28_Witness ==
    /\ SelectCalled /\ Len(htHands) = 2 /\ htPrevActive = -1
    /\ activeHandIndex = 1
    /\ VarianceTimesNN(handHistories[1]) = 0
    /\ Len(handHistories[1]) >= 3
    /\ htRet = SelectResult(1)
    /\ htPositions[2] # htPositions[1]

\* both variances equal and above 0: slot 0 is the first active hand
C28_WitnessTie ==
    /\ SelectCalled /\ Len(htHands) = 2 /\ htPrevActive = -1
    /\ activeHandIndex = 0
    /\ VarianceTimesNN(handHistories[1]) > 0
    /\ ~SecondMovesMore
    /\ handHistories[1] # handHistories[2]

\* C29: activeHandIndex is -1, 0 or 1 and there are exactly two hand history
\* slots in every state; once activeHandIndex is 0 or 1 no operation sets it
\* back to -1.
C29_ActiveHandNeverForgotten ==
    /\ [](activeHandIndex \in {-1, 0, 1} /\ Len(handHistories) = 2)
    /\ [][(activeHandIndex \in {0, 1}) => (activeHandIndex' \in {0, 1})
       ]_vars

\* slot 1 is still the active one after a detection with one hand and the
\* expiry of the persistence window
C29_Witness ==
    /\ activeHandIndex = 1
    /\ HandsProcessed /\ htHands = <<>>
    /\ htGap > maxLostFrames
    /\ htRet = Null
    /\ htSelected # Null
    /\ handHistories[2] = <<>>

----------------------------------------------------------------------------
(* Claims about the Game, the Bird and the PipeManager *)

\* C15: the speed is 0.5 at the start of every round, equals
\* min(0.5 + 0.05 * score, 1.0) after every scored pipe, so that it is 1.0
\* from score 10 on and below 1.0 before, lies between 0.5 and 1.0 in every
\* state, and is 0.5 after reset().
C15_SpeedRamp ==
    /\ StartSpeed <= speed /\ speed <= maxSpeed
    /\ (gameOp \in {"init", "start", "reset"}) => speed = StartSpeed
    /\ gameState = "ready" => speed = StartSpeed
    /\ (gameOp = "update" /\ gameRet = "score") =>
           /\ speed = Min(50 + 5 * score, 100)
           /\ speed = 100 <=> score >= 10

\* the pipe after the one that brought the speed to 1.0 has been scored, in
\* a second round
C15_Witness ==
    /\ gameOp = "update" /\ gameRet = "score"
    /\ score = 11
    /\ speed = 100
    /\ rounds = 2
    /\ highScore > 11

\* the pipes of the next state that are marked and were not marked before
NewlyScored ==
    {j \in DOMAIN pipes' :
        /\ pipes'[j].scored
        /\ \A i \in DOMAIN pipes : pipes[i].id = pipes'[j].id => ~pipes[i].scored}

\* C16: a pipe's scored flag never goes back from true to false, and
\* checkScore returns true only in a call that marks at least one pipe that
\* was unscored and whose right edge is left of the bird's x.
C16_PipeScoredOnce ==
    [][/\ \A i \in DOMAIN pipes : \A j \in DOMAIN pipes' :
              (pipes[i].id = pipes'[j].id /\ pipes[i].scored) => pipes'[j].scored
       /\ gameOp' \in {"checkScore", "update"} =>
              /\ gameRet' \in {"true", "score"} <=> NewlyScored # {}
              /\ \A j \in NewlyScored :
                     birdX' > pipes'[j].x + Px(60)
       /\ gameOp' \notin {"checkScore", "update"} => NewlyScored = {}
      ]_vars

\* checkScore returned false with a scored pipe behind the bird and an
\* unscored one ahead of it
C16_Witness ==
    /\ gameOp = "checkScore"
    /\ gameRet = "false"
    /\ \E i \in DOMAIN pipes :
           pipes[i].scored /\ birdX > pipes[i].x + Px(PIPE_WIDTH)
    /\ \E i \in DOMAIN pipes : ~pipes[i].scored

\* C17: after every Bird.update, whatever the speed argument and the prior
\* velocity, velocity <= TERMINAL_VELOCITY; jump() sets velocity to
\* JUMP_VELOCITY; the first update after a jump moves the bird up.
C17_JumpThenUpdateMovesUp ==
    [][/\ gameOp' = "birdUpdate" => birdVelocity' <= 1000
       /\ gameOp' = "birdJump" => birdVelocity' = -800
       /\ (gameOp = "birdJump" /\ gameOp' = "birdUpdate") => birdY' < birdY
      ]_vars

\* C17 as amended: the first update after a jump moves the bird up when its
\* speed argument lies strictly between 0 and 20; with speed 0 the bird stays
\* where it is and with a speed of 20 or more it does not move up.
C17_JumpThenUpdateMovesUpBelowTwenty ==
    [][/\ gameOp' = "birdUpdate" => birdVelocity' <= 1000
       /\ gameOp' = "birdJump" => birdVelocity' = -800
       /\ (gameOp = "birdJump" /\ gameOp' = "birdUpdate") =>
              /\ (0 < speedArg' /\ speedArg' < 2000) => birdY' < birdY
              /\ speedArg' = 0 => birdY' = birdY
              /\ speedArg' >= 2000 => birdY' >= birdY
      ]_vars

\* an update with the default speed right after a jump that cancelled a fall
\* at terminal velocity
C17_Witness ==
    /\ gameOp = "birdUpdate"
    /\ speedArg = 100
    /\ birdVelocity = JUMP_VELOCITY + GRAVITY
    /\ birdY > Px(300)
    /\ isFlapping

----------------------------------------------------------------------------
(* Claims about the detection loop *)

\* C18: under both detection paths lostFrames equals the number of most
\* recent consecutive detector results without a hand; calls of detect()
\* neither increment nor reset it.
C18_LostFramesCountsEmptyResults == lostFrames = emptyRun

\* C19: with the worker, once more than maxLostFrames consecutive results
\* without a hand have arrived the tracker reports no hand: detect() resolves
\* to null and getWristPosition() returns null, until a result has a hand.
C19_WorkerGapReportsNoHand ==
    (useWorker /\ emptyRun > maxLostFrames) =>
        /\ GetWristPosition(lastHandCenter, lastHand) = Null
        /\ htOp = "detectWithWorker" => htRet = Null

\* C20: at most one detection request is pending at any time, under both
\* detection paths.
C20_AtMostOnePending == pending <= 1

----------------------------------------------------------------------------
(* Claims about addPosition *)

\* C30: addPosition sets smoothedY to y itself for the first sample after
\* construction or reset, and for every later sample to smoothingFactor * y +
\* (1 - smoothingFactor) * the previous smoothedY; rawY is the last
\* unsmoothed y, and the value appended to positions is the smoothed one.
C30_ExponentialSmoothing ==
    [][Updated =>
          /\ smoothedY' # Null
          /\ IF smoothedY = Null
             THEN Val(smoothedY') = LastCall'.y
             ELSE IsMean(Val(smoothedY'),
                         SmoothNum * LastCall'.y
                             + (SmoothDen - SmoothNum) * Val(smoothedY),
                         SmoothDen)
          /\ rawY' = LastCall'.y
          /\ positions'[Len(positions')].y = Val(smoothedY')
          /\ positions'[Len(positions')].time = now'
      ]_vars

\* after a reset the detector took its first sample as it is and has
\* smoothed the later ones
C30_Witness ==
    /\ lastOp = "update"
    /\ Len(hist) >= 3
    /\ calls > Len(hist)
    /\ positions[1].y = hist[1].y
    /\ smoothedY # Some(rawY)
    /\ positions[Len(positions)].y = Val(smoothedY)

\* C31: with the default configuration the smoothing weights the new sample
\* and the previous smoothed value equally: on a new detector
\* addPosition(100) followed by addPosition(200) leaves smoothedY = 150.
C31_SmoothingFactorOneHalf ==
    (/\ lastOp = "addPosition"
     /\ Len(positions) = 2
     /\ positions[1].y = Px(100)
     /\ rawY = Px(200))
        => smoothedY = Some(Px(150))

\* the interval velocity for a time difference below 1 ms, equal and
\* out-of-order timestamps included, is dy / 1 * 16.67
GuardedDivisor ==
    \A dy \in {-1000, -1, 0, 1, 1000} : \A dt \in {-Ms(5), -1, 0, 5, Ms(1) - 1} :
        NormalizedVelocity(dy, dt) = RoundDiv(dy * FrameTime, Ms(1))

\* C32: getVelocity returns 0 with fewer than two positions; two consecutive
\* samples less than 1 ms apart give an interval velocity computed with a
\* divisor of 1 ms; so the velocity returned is finite for every sequence of
\* finite y.
C32_VelocityFinite ==
    lastOp = "getVelocity" =>
        /\ Len(positions) < 2 => velocity = 0
        /\ GuardedDivisor
        /\ Finite(velocity)

\* C32 without its conclusion: the zero with fewer than two positions and
\* the guarded divisor
C32_GuardOnly ==
    lastOp = "getVelocity" =>
        /\ Len(positions) < 2 => velocity = 0
        /\ GuardedDivisor

\* the constants added to every sample: 1000 pixels up, which makes every
\* coordinate negative, and 50 pixels down
Shifts == {-Px(1000), Px(50)}

\* the detector d went through what the detector of the model went through
\* in its last update
SameOutcome(d) ==
    /\ d.ret = LastCall.ret
    /\ d.velocity = LastCall.v
    /\ d.state = state
    /\ d.cooldownTimer = cooldownTimer
    /\ d.upwardFrames = upwardFrames
    /\ d.velocityHistory = velocityHistory

\* the samples of the detector went up the screen all the time
Decreasing == Len(hist) >= 2 /\ \A i \in 2..Len(hist) : hist[i].y < hist[i - 1].y

----------------------------------------------------------------------------
(* Claims about the states of the Game *)

\* the changes of Game.state that the operations make
StateChanges ==
    {<<"menu", "ready">>, <<"ready", "playing">>, <<"playing", "gameover">>,
     <<"gameover", "ready">>}

\* the step is a call of the operation op of the Game
GameCalled(op) == gameOp' = op /\ now' = now

\* the bird of the next state is on the ground, at the ceiling or in a pipe
HitsNext ==
    \/ birdY' < Px(BirdRadius)
    \/ birdY' > Px(CanvasHeight - GROUND_HEIGHT - BirdRadius)
    \/ CheckCollision(pipes', TheBird')

NoResetCalled == gameCalls = 0

\* C35: under start(), jump() and update(), frozen is true exactly when
\* state is 'menu' or 'ready'; while frozen or while state is not 'playing',
\* update() returns no event and changes neither the bird, the pipes, the
\* score, the speed nor the gap; and the score returns to 0 whenever a round
\* is (re)started.
C35_FrozenUntilFirstJump ==
    /\ [](NoResetCalled => (frozen <=> gameState \in {"menu", "ready"}))
    /\ [][
           /\ (GameCalled("update") /\ (frozen \/ gameState # "playing")) =>
                  /\ gameRet' = "undefined"
                  /\ UNCHANGED <<birdFields, pipeFields, score, speed, gap>>
           /\ rounds' # rounds => score' = 0 /\ gameState' = "ready"
           /\ (gameState' = "ready" /\ gameState # "ready") => score' = 0
       ]_vars

\* update() called in the second round before its first jump(), the first
\* round having ended with a score
C35_Witness ==
    /\ NoResetCalled
    /\ gameOp = "update" /\ gameRet = "undefined"
    /\ gameState = "ready" /\ frozen
    /\ rounds = 2
    /\ highScore > 0
    /\ score = 0

\* C36: Game.highScore never decreases over any sequence of rounds, and
\* whenever state is 'gameover' highScore >= score; the stored high score is
\* written only when a round ends with a score strictly above the previous
\* high score.
C36_HighScoreMonotone ==
    /\ [](gameState = "gameover" => highScore >= score)
    /\ [][
           /\ highScore' >= highScore
           /\ storedHighScore' # storedHighScore =>
                  /\ gameState = "playing" /\ gameState' = "gameover"
                  /\ score > highScore
                  /\ storedHighScore' = score
                  /\ highScore' = score
           /\ (gameState = "playing" /\ gameState' = "gameover"
                  /\ score <= highScore) =>
                  UNCHANGED <<highScore, storedHighScore>>
       ]_vars

\* a fourth round ends above the high score of the rounds before it, of
\* which the second and the third did not reach the score of the first
C36_Witness ==
    /\ gameState = "gameover"
    /\ gameOp = "update" /\ gameRet = "hit"
    /\ rounds = 4
    /\ score = 3
    /\ highScore = 3 /\ storedHighScore = 3

----------------------------------------------------------------------------
(* Claims about the fields of the MotionDetector *)

\* the fields agree in the states reached through update and reset
FieldsAgree ==
    /\ state = "idle" => upwardFrames = 0
    /\ state = "moving_up" => upwardFrames >= 1
    /\ 0 <= cooldownTimer /\ cooldownTimer <= cooldownFrames

\* C37: in every state reachable through update and reset, state = 'idle'
\* implies upwardFrames = 0, state = 'moving_up' implies upwardFrames >= 1
\* and 0 <= cooldownTimer <= cooldownFrames; each update with a position
\* lowers a positive cooldownTimer by exactly 1 before the state machine is
\* evaluated, whatever the state: a call that finds the timer at 1 can jump,
\* and only such a call sets a positive timer anew.
C37_CounterInvariants ==
    /\ []FieldsAgree
    /\ [][(Updated /\ cooldownTimer > 0) =>
             IF ret'
             THEN cooldownTimer = 1 /\ cooldownTimer' = cooldownFrames
             ELSE cooldownTimer' = cooldownTimer - 1
       ]_vars

\* an update that found the detector in 'moving_up' with the timer of an
\* earlier jump still running, and counted it down
C37_Witness ==
    /\ lastOp = "update"
    /\ LastCall.from = "moving_up"
    /\ ~LastCall.ret
    /\ cooldownTimer > 0
    /\ \E i \in DOMAIN hist : hist[i].ret

=============================================================================
